---------------------------- MODULE Spec2Model ----------------------------
(***************************************************************************)
(* A model of the teslamattress multilingual pipeline:                     *)
(*   scripts/extract.js    raw pages -> templates + en.json                *)
(*   scripts/translate.js  en.json   -> <locale>.json (external translator)*)
(*   scripts/build.js      templates + locale files -> dist/ + sitemap     *)
(*   scripts/verify.js     dist/ -> errors, warnings, exit status          *)
(*                                                                         *)
(* Text is modelled as a sequence of tokens.  A token is a literal atom    *)
(* (one character, or a word whose inner characters no code path looks     *)
(* at), a translation placeholder {{t.scope.key}}, a structural            *)
(* placeholder {{name}}, or a piece of inline markup <...>.  A page is a   *)
(* sequence of lines, a line a sequence of elements, an element a tag with *)
(* its class, one attribute value and its body text.                       *)
(***************************************************************************)
EXTENDS Integers, Sequences, FiniteSets, TLC

VARIABLES
    (* extract.js *)
    src,          \* pageKey -> raw page text under ROOT, or NoFile
    templates,    \* pageKey -> text under src/templates, or NoFile
    locale,       \* the script's `locale` object without _meta: scope -> key -> value
    enJson,       \* src/locales/en.json as written, or NoFile
    xpc,          \* position of the extraction script
    xi,           \* index into PAGES of the run loop
    xrun,         \* number of the extraction run
    prevTemplates,\* templates as the previous extraction run left them
    prevEnJson,   \* en.json as the previous extraction run left it
    (* build.js *)
    localeFiles,     \* target locale -> src/locales/<loc>.json, or NoFile
    selectedLocales, \* the --locales argument of build.js, <<>> when not given
    locales,         \* the loaded dictionaries: locale -> scope -> key -> value
    dist,            \* <<locale, pageKey>> -> rendered page under dist/, or NoFile
    sitemap,         \* dist/sitemap.xml: its <url> entries, or NoFile
    bwarn,           \* the console.warn lines of the build, in order
    bpc,             \* position of the build script
    bi,              \* index into localeKeys of the build loop
    bj,              \* index into PAGES of the build loop
    (* verify.js *)
    LOCALES,         \* the locales verify.js looks at (--locales or all six)
    errors,          \* the error counter
    warnings,        \* the warning counter
    errlog,          \* the console.error lines, in order
    vpc,             \* the check verify.js runs next
    exitCode,        \* the exit status, -1 while the script runs
    (* translate.js *)
    selectedSections,\* the --sections argument, <<>> when not given
    tLocaleData,     \* localeData: the dictionary of the locale being translated
    tpc,             \* position of the translation script
    ti,              \* index into the locales of the run
    tj,              \* index into the sections of the run
    trun,            \* number of the translation run
    calls,           \* the calls made to the translator: run, locale, section, data
    tlog,            \* what the console says per section: run, locale, section, outcome
    filesAtStart,    \* the locale files as the current run found them
    tends            \* how the earlier runs ended

xvars == <<src, templates, locale, enJson, xpc, xi, xrun, prevTemplates, prevEnJson>>

bvars == <<localeFiles, selectedLocales, locales, dist, sitemap, bwarn, bpc, bi, bj>>

vvars == <<LOCALES, errors, warnings, errlog, vpc, exitCode>>

tvars == <<selectedSections, tLocaleData, tpc, ti, tj, trun, calls, tlog, filesAtStart, tends>>

vars == <<xvars, bvars, vvars, tvars>>

\* A file is <<>> when it does not exist and <<content>> when it does.
NoFile == <<>>
File(content) == <<content>>

\* F(x) with x computed first: the statements of a function body run one
\* after the other, each on the finished result of the one before.
Then(x, F(_)) == CHOOSE y \in {F(v) : v \in {x}} : TRUE

\* for (n = lo; n <= hi; n++) x = Step(x, n), by halves.
Loop(x, lo, hi, Step(_, _)) ==
    LET RECURSIVE run(_, _, _)
        run(v, a, b) ==
            CASE a > b -> v
              [] a = b -> Step(v, a)
              [] OTHER -> LET mid == (a + b) \div 2
                          IN  CHOOSE y \in {run(w, mid + 1, b) : w \in {run(v, a, mid)}} : TRUE
    IN  run(x, lo, hi)

\* The concatenation of F(seq[1]), ..., F(seq[Len(seq)]).
FlatMap(seq, F(_)) == Loop(<<>>, 1, Len(seq), LAMBDA acc, n : acc \o F(seq[n]))

-----------------------------------------------------------------------------
(* Tokens and text *)

Ch(c) == [k |-> "c", a |-> c, b |-> ""]
T(scope, key) == [k |-> "t", a |-> scope, b |-> key]
S(name) == [k |-> "s", a |-> name, b |-> ""]
Tag(x, href) == [k |-> "tag", a |-> x, b |-> href]

Txt(s) == [i \in 1..Len(s) |-> Ch(s[i])]

IsPh(tok) == tok.k \in {"t", "s"}

\* Number of characters a token stands for.
TokLen(tok) ==
    CASE tok.k = "c" -> Len(tok.a)
      [] tok.k = "t" -> 4 + Len(tok.a) + 1 + Len(tok.b) + 2
      [] tok.k = "s" -> 2 + Len(tok.a) + 2
      [] OTHER -> 2 + Len(tok.a) + Len(tok.b)

CharLen(t) == Loop(0, 1, Len(t), LAMBDA sum, n : sum + TokLen(t[n]))

IsSpace(tok) == tok.k = "c" /\ tok.a = " "

\* String.prototype.trim: from the first to the last token that is no space.
Trim(t) ==
    LET ns == {n \in 1..Len(t) : ~IsSpace(t[n])}
    IN  IF ns = {} THEN <<>>
        ELSE SubSeq(t, CHOOSE n \in ns : \A m \in ns : n <= m,
                       CHOOSE n \in ns : \A m \in ns : m <= n)

\* text.replace(/<[^>]+>/g, '')
StripTags(t) == SelectSeq(t, LAMBDA tok : tok.k # "tag")

HasTag(t) == \E n \in 1..Len(t) : t[n].k = "tag"
HasPh(t) == \E n \in 1..Len(t) : IsPh(t[n])
HasT(t) == \E n \in 1..Len(t) : t[n].k = "t"

\* s.startsWith('{{')
StartsWithBraces(t) == t # <<>> /\ IsPh(t[1])

Digits == {"0", "1", "2", "3", "4", "5", "6", "7", "8", "9"}
LowerLetters == {"a", "b", "c", "d", "e", "f", "g", "h", "i", "j", "k", "l", "m",
                 "n", "o", "p", "q", "r", "s", "t", "u", "v", "w", "x", "y", "z"}
NumericSymbols == {".", ",", "/", "%", "$", "+", "~"}
LowerTab == [c \in {"A", "B", "C", "P", "R", "U"} |->
                CASE c = "A" -> "a" [] c = "B" -> "b" [] c = "C" -> "c"
                  [] c = "P" -> "p" [] c = "R" -> "r" [] c = "U" -> "u"]

\* String.prototype.toLowerCase, one character
Lower(c) == IF c \in DOMAIN LowerTab THEN LowerTab[c] ELSE c

IsAlnum(c) == c \in LowerLetters \cup Digits

AllChars(t, set) == \A n \in 1..Len(t) : t[n].k = "c" /\ t[n].a \in set

shouldSkip(text) ==
    LET clean == Trim(StripTags(text)) IN
    \/ clean = <<>>
    \/ CharLen(clean) < 2
    \/ AllChars(clean, Digits \cup NumericSymbols)
    \/ AllChars(clean, Digits)
    \/ (Len(clean) >= 2 /\ clean[1] = Ch("#") /\ AllChars(Tail(clean), Digits))
    \/ StartsWithBraces(clean)

Concat(s) == Loop("", 1, Len(s), LAMBDA str, n : str \o s[n])

\* The characters of a text that holds only literal atoms.
Chars(t) == [n \in 1..Len(t) |-> t[n].a]

\* s.replace(/[^a-z0-9]+/g, '_') on a sequence of characters
CollapseNonAlnum(s) ==
    Loop(<<>>, 1, Len(s), LAMBDA out, n :
        IF IsAlnum(s[n]) THEN Append(out, s[n])
        ELSE IF n > 1 /\ ~IsAlnum(s[n - 1]) THEN out
        ELSE Append(out, "_"))

\* s.replace(/^_|_$/g, '')
StripEdgeUnderscore(s) ==
    LET a == IF s # <<>> /\ Head(s) = "_" THEN Tail(s) ELSE s
    IN  IF a # <<>> /\ a[Len(a)] = "_" THEN SubSeq(a, 1, Len(a) - 1) ELSE a

LowerSeq(s) == [n \in 1..Len(s) |-> Lower(s[n])]

\* `th_${text.toLowerCase().replace(/[^a-z0-9]+/g, '_').replace(/^_|_$/g, '')}`
thKey(text) ==
    "th_" \o Concat(StripEdgeUnderscore(CollapseNonAlnum(LowerSeq(Chars(text)))))

\* `dl_${val.toLowerCase().replace(/[^a-z0-9]/g, '_')}`
dlKey(val) ==
    LET low == LowerSeq(Chars(val))
    IN  "dl_" \o Concat([n \in 1..Len(low) |-> IF IsAlnum(low[n]) THEN low[n] ELSE "_"])

-----------------------------------------------------------------------------
(* The dictionary of extract.js *)

HasKey(d, scope, key) == scope \in DOMAIN d /\ key \in DOMAIN d[scope]

addString(d, section, key, value) ==
    IF section \in DOMAIN d
    THEN [d EXCEPT ![section] = (key :> value) @@ @]
    ELSE (section :> (key :> value)) @@ d

addShared(d, key, value) ==
    IF key \in DOMAIN d["shared"] /\ d["shared"][key] # <<>>
    THEN d
    ELSE [d EXCEPT !["shared"] = (key :> value) @@ @]

-----------------------------------------------------------------------------
(* Elements, lines, pages *)

EmptyObj == [x \in {} |-> <<>>]

\* <tag class="cls" attr="...">body</tag>.  `attr` is the one attribute value
\* the scripts look at: lang, content, href or data-label.  `json` is the parsed
\* content of a JSON-LD script block: its objects in the order walkAndExtract
\* visits them.
Elem(tag, cls, attr, body) ==
    [tag |-> tag, cls |-> cls, attr |-> attr, body |-> body, json |-> <<>>]

JsonLd(objs) ==
    [tag |-> "jsonld", cls |-> "", attr |-> <<>>, body |-> <<>>, json |-> objs]

\* A JSON-LD script block whose content JSON.parse rejects.
MalformedJsonLd == [tag |-> "jsonld", cls |-> "malformed", attr |-> <<>>,
                    body |-> Txt(<<"{", "x">>), json |-> <<>>]

JObj(otype, item, f) == [otype |-> otype, item |-> item, f |-> f]

\* A structural placeholder standing between elements.
Ph(name) == Elem("ph", "", <<>>, <<S(name)>>)

NoPos == <<0, 0>>

AllPos(html) ==
    UNION {{<<i, j>> : j \in 1..Len(html[i])} : i \in 1..Len(html)}

PosLeq(p, q) == p[1] < q[1] \/ (p[1] = q[1] /\ p[2] <= q[2])
PosLess(p, q) == PosLeq(p, q) /\ p # q

At(html, p) == html[p[1]][p[2]]

SetAt(html, p, e) == [html EXCEPT ![p[1]][p[2]] = e]

MinPos(ps) == IF ps = {} THEN NoPos ELSE CHOOSE p \in ps : \A q \in ps : PosLeq(p, q)

\* The first element of the document that a non-global regex matches.
FirstPos(html, P(_)) == MinPos({p \in AllPos(html) : P(At(html, p))})

\* The first such element after position `from`.
FirstPosAfter(html, from, P(_)) ==
    MinPos({p \in AllPos(html) : PosLess(from, p) /\ P(At(html, p))})

\* The positions of a set in document order.
RECURSIVE PosSeqOf(_)
PosSeqOf(ps) ==
    IF ps = {} THEN <<>> ELSE LET m == MinPos(ps) IN <<m>> \o PosSeqOf(ps \ {m})

\* Insert "\n    {{name}}" right after the element at p: the rest of the line
\* moves to a new line that starts with the placeholder.
BreakAfter(html, p, name) ==
    LET line == html[p[1]]
    IN  SubSeq(html, 1, p[1] - 1)
        \o << SubSeq(line, 1, p[2]), <<Ph(name)>> \o SubSeq(line, p[2] + 1, Len(line)) >>
        \o SubSeq(html, p[1] + 1, Len(html))

ElemHasT(e) ==
    \/ HasT(e.attr)
    \/ HasT(e.body)
    \/ \E n \in 1..Len(e.json) : \E fld \in DOMAIN e.json[n].f : HasT(e.json[n].f[fld])

\* line.includes('{{t.')
LineHasT(line) == \E j \in 1..Len(line) : ElemHasT(line[j])

-----------------------------------------------------------------------------
(* extract.js PHASE 1: meta tags.  A pass maps st = [html, loc] to the same. *)

extractTitle(st, pk) ==
    LET p == FirstPos(st.html, LAMBDA e : e.tag = "title")
        e == At(st.html, p)
    IN  IF p = NoPos THEN st
        ELSE [html |-> SetAt(st.html, p, [e EXCEPT !.body = <<T(pk, "meta_title")>>]),
              loc |-> addString(st.loc, pk, "meta_title", Trim(e.body))]

metaTags == <<
    [cls |-> "name:title", key |-> "meta_name_title"],
    [cls |-> "name:description", key |-> "meta_description"],
    [cls |-> "name:keywords", key |-> "meta_keywords"],
    [cls |-> "property:og:title", key |-> "og_title"],
    [cls |-> "property:og:description", key |-> "og_description"],
    [cls |-> "name:twitter:title", key |-> "twitter_title"],
    [cls |-> "name:twitter:description", key |-> "twitter_description"] >>

\* One iteration of `for (const { regex, key } of metaTags)`.
extractMetaTag(st, pk, n) ==
    LET mt == metaTags[n]
        p == FirstPos(st.html, LAMBDA e : e.tag = "meta" /\ e.cls = mt.cls)
        e == At(st.html, p)
    IN  IF p = NoPos \/ Trim(e.attr) = <<>> THEN st
        ELSE [html |-> SetAt(st.html, p, [e EXCEPT !.attr = <<T(pk, mt.key)>>]),
              loc |-> addString(st.loc, pk, mt.key, e.attr)]

extractMeta(st, pk) ==
    Loop(extractTitle(st, pk), 1, Len(metaTags), LAMBDA s, n : extractMetaTag(s, pk, n))

-----------------------------------------------------------------------------
(* extract.js PHASE 2: structural templating *)

\* html.replace('<html lang="en">', '<html lang="{{htmlLang}}">')
templateHtmlLang(html) ==
    LET p == FirstPos(html, LAMBDA e : e.tag = "html" /\ e.attr = <<Ch("en")>>)
    IN  IF p = NoPos THEN html
        ELSE SetAt(html, p, [At(html, p) EXCEPT !.attr = <<S("htmlLang")>>])

\* The first element `tag`/`cls` gets attribute {{name}}; with `extra`, a line
\* break and {{extra}} follow it.
templateAttr(html, tag, cls, name, extra) ==
    LET p == FirstPos(html, LAMBDA e : e.tag = tag /\ e.cls = cls)
        h == SetAt(html, p, [At(html, p) EXCEPT !.attr = <<S(name)>>])
    IN  IF p = NoPos THEN html
        ELSE IF extra = "" THEN h
        ELSE BreakAfter(h, p, extra)

templateStructural(html) ==
    Then(templateHtmlLang(html), LAMBDA h1 :
    Then(templateAttr(h1, "link", "canonical", "canonicalUrl", "hreflangTags"), LAMBDA h2 :
    Then(templateAttr(h2, "meta", "property:og:url", "pageUrl", ""), LAMBDA h3 :
    Then(templateAttr(h3, "meta", "name:twitter:url", "pageUrl", ""), LAMBDA h4 :
    templateAttr(h4, "meta", "property:og:locale", "ogLocale", "ogLocaleAlternates")))))

-----------------------------------------------------------------------------
(* extract.js PHASE 3: JSON-LD *)

translatableFields ==
    <<"description", "reviewBody", "headline", "slogan", "name", "text", "award">>

ExemptNameTypes ==
    {"Brand", "Organization", "Person", "ImageObject", "Rating", "AggregateRating",
     "AggregateOffer", "Offer", "EducationalOccupationalCredential"}

JsonMinLen == 10

\* obj[field].startsWith('http')
StartsWithHttp(v) == v # <<>> /\ v[1].k = "c" /\ v[1].a \in {"http", "https"}

\* /^\d{4}-\d{2}-\d{2}$/.test(obj[field])
IsIsoDate(v) ==
    /\ Len(v) = 10
    /\ \A n \in 1..10 : v[n].k = "c" /\ (IF n \in {5, 8} THEN v[n].a = "-" ELSE v[n].a \in Digits)

\* obj[field].includes('schema.org')
HasSchemaOrg(v) == \E n \in 1..Len(v) : v[n] = Ch("schema.org")

\* The field loop without the exemption of the names of brand-like types.
jsonFieldSkippedNoExemption(obj, field) ==
    LET v == obj.f[field] IN
    \/ StartsWithHttp(v)
    \/ IsIsoDate(v)
    \/ HasSchemaOrg(v)
    \/ (field = "name" /\ obj.otype = "ListItem" /\ obj.item)

\* The `continue` conditions of the field loop.
jsonFieldSkipped(obj, field) ==
    LET v == obj.f[field] IN
    \/ StartsWithHttp(v)
    \/ IsIsoDate(v)
    \/ HasSchemaOrg(v)
    \/ (field = "name" /\ obj.otype # "" /\ obj.otype \in ExemptNameTypes)
    \/ (field = "name" /\ obj.otype = "ListItem" /\ obj.item)

\* One field of one object; w = [obj, loc, keyIdx].
walkField(w, pk, prefix, field) ==
    IF /\ field \in DOMAIN w.obj.f
       /\ CharLen(w.obj.f[field]) > JsonMinLen
       /\ ~jsonFieldSkipped(w.obj, field)
    THEN LET kI == w.keyIdx + 1
             k == prefix \o "_" \o field \o "_" \o ToString(kI)
         IN  [obj |-> [w.obj EXCEPT !.f[field] = <<T(pk, k)>>],
              loc |-> addString(w.loc, pk, k, w.obj.f[field]),
              keyIdx |-> kI]
    ELSE w

walkFields(w, pk, prefix) ==
    Loop(w, 1, Len(translatableFields),
         LAMBDA x, n : walkField(x, pk, prefix, translatableFields[n]))

\* The n-th object of a block in visiting order; b = [objs, loc, keyIdx].
walkObject(b, pk, prefix, n) ==
    LET w == walkFields([obj |-> b.objs[n], loc |-> b.loc, keyIdx |-> b.keyIdx], pk, prefix)
    IN  [objs |-> [b.objs EXCEPT ![n] = w.obj], loc |-> w.loc, keyIdx |-> w.keyIdx]

walkAndExtract(b, pk, prefix) ==
    Loop(b, 1, Len(b.objs), LAMBDA x, n : walkObject(x, pk, prefix, n))

\* The characters JSON does not allow bare inside a string: the double
\* quote, the backslash and the line break.
JsonQuote == Ch("\"")
JsonBackslash == Ch("\\")
JsonLineBreak == Ch("\n")

\* JSON.parse on the text between the quotes of a string: a backslash takes
\* the next character with it (\" \\ \/ and \n; the atoms of the model hold no
\* other escape), a bare quote ends the string early and a bare line break is
\* a control character, both syntax errors.
jsonParseString(t) ==
    LET r == Loop([out |-> <<>>, esc |-> FALSE, ok |-> TRUE], 1, Len(t),
                  LAMBDA s, n :
                      IF ~s.ok THEN s
                      ELSE IF s.esc
                      THEN IF t[n] \in {JsonQuote, JsonBackslash, Ch("/")}
                           THEN [out |-> Append(s.out, t[n]), esc |-> FALSE, ok |-> TRUE]
                           ELSE IF t[n] = Ch("n")
                           THEN [out |-> Append(s.out, JsonLineBreak), esc |-> FALSE, ok |-> TRUE]
                           ELSE [s EXCEPT !.ok = FALSE]
                      ELSE IF t[n] = JsonBackslash THEN [s EXCEPT !.esc = TRUE]
                      ELSE IF t[n] \in {JsonQuote, JsonLineBreak} THEN [s EXCEPT !.ok = FALSE]
                      ELSE [s EXCEPT !.out = Append(@, t[n])])
    IN  [ok |-> r.ok /\ ~r.esc, v |-> IF r.ok /\ ~r.esc THEN r.out ELSE <<>>]

\* JSON.stringify on a string value, without the quotes around it.
jsonStringifyString(v) ==
    FlatMap(v, LAMBDA tok :
        CASE tok = JsonQuote -> <<JsonBackslash, JsonQuote>>
          [] tok = JsonBackslash -> <<JsonBackslash, JsonBackslash>>
          [] tok = JsonLineBreak -> <<JsonBackslash, Ch("n")>>
          [] OTHER -> <<tok>>)

\* JSON.parse(jsonStr) succeeds: the block is well formed and so is each of
\* its strings.
jsonParses(e) ==
    /\ e.cls # "malformed"
    /\ \A n \in 1..Len(e.json) : \A fld \in DOMAIN e.json[n].f :
          jsonParseString(e.json[n].f[fld]).ok

\* JSON.parse(jsonStr): the objects with the values of their strings.
jsonParse(objs) ==
    [n \in 1..Len(objs) |->
        [objs[n] EXCEPT !.f = [fld \in DOMAIN @ |-> jsonParseString(@[fld]).v]]]

\* JSON.stringify(json, null, 8): the objects with the texts of their strings.
jsonStringify(objs) ==
    [n \in 1..Len(objs) |->
        [objs[n] EXCEPT !.f = [fld \in DOMAIN @ |-> jsonStringifyString(@[fld])]]]

\* The replace callback, for the jsonLdIdx-th block, at position p.  The
\* json of an element is the text of the block: the strings as they are
\* written between their quotes.
extractJsonLdBlock(st, pk, p, jsonLdIdx) ==
    LET e == At(st.html, p)
        b == walkAndExtract([objs |-> jsonParse(e.json), loc |-> st.loc, keyIdx |-> 0],
                            pk, "jsonld_" \o ToString(jsonLdIdx))
    IN  IF ~jsonParses(e) THEN st
        ELSE [html |-> SetAt(st.html, p, [e EXCEPT !.json = jsonStringify(b.objs)]),
              loc |-> b.loc]

extractJsonLd(st, pk) ==
    LET ps == PosSeqOf({p \in AllPos(st.html) : At(st.html, p).tag = "jsonld"})
    IN  Loop(st, 1, Len(ps), LAMBDA s, n : extractJsonLdBlock(s, pk, ps[n], n))

-----------------------------------------------------------------------------
(* extract.js PHASE 4: navigation *)

navTexts == <<
    [text |-> "Reviews", key |-> "nav_reviews"],
    [text |-> "Compare", key |-> "nav_compare"],
    [text |-> "Discounts", key |-> "nav_discounts"],
    [text |-> "About", key |-> "nav_about"],
    [text |-> "Comparison", key |-> "nav_comparison"],
    [text |-> "All Reviews", key |-> "nav_all_reviews"] >>

\* for (const [text, key] of Object.entries(table)) addShared(key, text)
addSharedAll(d, table) ==
    Loop(d, 1, Len(table), LAMBDA x, n : addShared(x, table[n].key, <<Ch(table[n].text)>>))

\* content.replace(new RegExp(`>${text}</a>`, 'g'), `>{{t.shared.${key}}}</a>`) for
\* every entry of `table`, on the elements strictly between positions lo and hi.
linkTextKey(table, body) ==
    LET hits == {n \in 1..Len(table) : body = <<Ch(table[n].text)>>}
    IN  IF hits = {} THEN "" ELSE table[CHOOSE n \in hits : TRUE].key

replaceLinkTexts(html, table, lo, hi) ==
    [i \in 1..Len(html) |-> [j \in 1..Len(html[i]) |->
        LET e == html[i][j] IN
        IF /\ PosLess(lo, <<i, j>>) /\ PosLess(<<i, j>>, hi)
           /\ e.tag = "a" /\ linkTextKey(table, e.body) # ""
        THEN [e EXCEPT !.body = <<T("shared", linkTextKey(table, e.body))>>]
        ELSE e]]

IsNavOpen(e) == e.tag = "ul" /\ e.cls = "nav-links"
IsUlClose(e) == e.tag = "/ul"

\* The matches of /(<ul class="nav-links">)([\s\S]*?)(<\/ul>)/g after `from`,
\* as a sequence of <<open, close>> positions.
RECURSIVE navBlocks(_, _)
navBlocks(html, from) ==
    LET open == FirstPosAfter(html, from, IsNavOpen)
        close == FirstPosAfter(html, open, IsUlClose)
    IN  IF open = NoPos \/ close = NoPos THEN <<>>
        ELSE <<<<open, close>>>> \o navBlocks(html, close)

navReplace(html, blocks) ==
    Loop(html, 1, Len(blocks),
         LAMBDA h, n : replaceLinkTexts(h, navTexts, blocks[n][1], blocks[n][2]))

\* {{langSwitcher}} after the first block only.
navAppendOnce(html, blocks) ==
    IF blocks = <<>> THEN html ELSE BreakAfter(html, blocks[1][2], "langSwitcher")

\* `${close}\n        {{langSwitcher}}` after each block, last block first so
\* that the positions of the earlier blocks stay valid.
navAppend(html, blocks) ==
    Loop(html, 1, Len(blocks),
         LAMBDA h, n : BreakAfter(h, blocks[Len(blocks) + 1 - n][2], "langSwitcher"))

templateNav(st) ==
    LET blocks == navBlocks(st.html, NoPos)
    IN  [html |-> navAppend(navReplace(st.html, blocks), blocks),
         loc |-> addSharedAll(st.loc, navTexts)]

-----------------------------------------------------------------------------
(* extract.js PHASE 5: body text, line by line.                              *)
(* A matcher maps m = [line, loc, cnt] to the same; `line` is lines[i].      *)

cntAfter(cnt, prefix) ==
    IF prefix \in DOMAIN cnt THEN [cnt EXCEPT ![prefix] = @ + 1] ELSE (prefix :> 1) @@ cnt

\* A nextKey that suffixes the first key of a category too.
keyOfAlwaysSuffixed(cnt, prefix) ==
    prefix \o "_" \o ToString(cnt[prefix])

\* The key nextKey(prefix) returns, given the counters after the increment.
keyOf(cnt, prefix) ==
    IF cnt[prefix] = 1 THEN prefix ELSE prefix \o "_" \o ToString(cnt[prefix])

\* The first element of a line that satisfies P, or 0.
FirstIn(line, P(_)) ==
    LET js == {j \in 1..Len(line) : P(line[j])}
    IN  IF js = {} THEN 0 ELSE CHOOSE j \in js : \A q \in js : j <= q

\* extractPageText without its addString: the placeholder is written, the
\* dictionary is left as it was.
extractPageTextNoKey(m, from, j, pk, prefix) ==
    LET c == cntAfter(m.cnt, prefix)
    IN  [line |-> [from EXCEPT ![j].body = <<T(pk, keyOf(c, prefix))>>], loc |-> m.loc, cnt |-> c]

\* Page-scoped extraction of element j of `from`: the key is taken, the trimmed
\* body stored, and lines[i] becomes `from` with that body replaced.
extractPageText(m, from, j, pk, prefix) ==
    LET c == cntAfter(m.cnt, prefix)
        k == keyOf(c, prefix)
    IN  [line |-> [from EXCEPT ![j].body = <<T(pk, k)>>],
         loc |-> addString(m.loc, pk, k, Trim(from[j].body)),
         cnt |-> c]

\* Headings: the match and the replacement both use `line`, the line as it
\* was when the iteration began.
matchHeading(m, orig, pk, level) ==
    LET tag == "h" \o ToString(level)
        j == FirstIn(orig, LAMBDA e : e.tag = tag /\ e.body # <<>>)
    IN  IF j # 0 /\ ~shouldSkip(orig[j].body)
        THEN extractPageText(m, orig, j, pk, tag)
        ELSE m

matchHeadings(m, orig, pk) == Loop(m, 1, 4, LAMBDA x, level : matchHeading(x, orig, pk, level))

matchParagraph(m, pk) ==
    LET j == FirstIn(m.line, LAMBDA e : e.tag = "p" /\ e.body # <<>>)
    IN  IF j # 0 /\ ~shouldSkip(m.line[j].body)
        THEN extractPageText(m, m.line, j, pk, "p")
        ELSE m

\* /<th[^>]*>([^<{]+)<\/th>/g, one th element after the other.
\* One step of `while ((m = re.exec(lines[i])) !== null)`: the match at element
\* n of lines[i] as it is now; the replace takes the first `>${text}</th>`.
matchTableHeader(m, n) ==
    LET e == m.line[n]
        text == Trim(e.body)
        shKey == thKey(text)
        j == FirstIn(m.line, LAMBDA x : x.tag = "th" /\ x.body = text)
    IN  IF /\ e.tag = "th" /\ e.body # <<>> /\ ~HasTag(e.body) /\ ~HasPh(e.body)
           /\ text # <<>> /\ ~shouldSkip(text)
        THEN [m EXCEPT
                !.loc = addShared(m.loc, shKey, text),
                !.line = IF j = 0 THEN m.line
                         ELSE [m.line EXCEPT ![j].body = <<T("shared", shKey)>>]]
        ELSE m

matchTableHeaders(m) ==
    Loop(m, 1, Len(m.line), LAMBDA x, n : matchTableHeader(x, n))

\* /data-label="([^"]+)"/g
\* One step of the data-label loop: the match at element n of lines[i] as it
\* is now; the replace takes the first `data-label="${val}"`.
matchDataLabel(m, n) ==
    LET e == m.line[n]
        val == e.attr
        shKey == dlKey(val)
        j == FirstIn(m.line, LAMBDA x : x.tag = "td" /\ x.attr = val)
    IN  IF e.tag = "td" /\ val # <<>> /\ ~StartsWithBraces(val)
        THEN [m EXCEPT
                !.loc = addShared(m.loc, shKey, val),
                !.line = IF j = 0 THEN m.line
                         ELSE [m.line EXCEPT ![j].attr = <<T("shared", shKey)>>]]
        ELSE m

matchDataLabels(m) ==
    Loop(m, 1, Len(m.line), LAMBDA x, n : matchDataLabel(x, n))

spanClasses == <<
    [cls |-> "section-tag", u |-> "section_tag"],
    [cls |-> "review-badge", u |-> "review_badge"],
    [cls |-> "score-label", u |-> "score_label"],
    [cls |-> "stat-label", u |-> "stat_label"],
    [cls |-> "stat-key", u |-> "stat_key"],
    [cls |-> "savings-text", u |-> "savings_text"],
    [cls |-> "savings-amount", u |-> "savings_amount"],
    [cls |-> "code-label", u |-> "code_label"],
    [cls |-> "partner-desc", u |-> "partner_desc"],
    [cls |-> "partner-discount", u |-> "partner_discount"],
    [cls |-> "spec-label", u |-> "spec_label"],
    [cls |-> "finding-value", u |-> "finding_value"],
    [cls |-> "finding-basis", u |-> "finding_basis"],
    [cls |-> "tldr-highlight-label", u |-> "tldr_highlight_label"],
    [cls |-> "review-updated", u |-> "review_updated"],
    [cls |-> "discount-badge-new", u |-> "discount_badge_new"],
    [cls |-> "discount-badge", u |-> "discount_badge"],
    [cls |-> "discount-badge-none", u |-> "discount_badge_none"],
    [cls |-> "region-popup-subtitle", u |-> "region_popup_subtitle"] >>

divClasses == <<
    [cls |-> "stat-number", u |-> "stat_number"],
    [cls |-> "stat-label", u |-> "stat_label"],
    [cls |-> "footer-logo", u |-> "footer_logo"] >>

linkClasses == <<
    [cls |-> "discount-details-link", u |-> "discount_details_link"],
    [cls |-> "discount-cta-btn", u |-> "discount_cta_btn"] >>

\* class="${cls}[^"]*": the class attribute begins with cls.
ClassPrefixes == {<<"discount-badge", "discount-badge-new">>,
                  <<"discount-badge", "discount-badge-none">>}
ClsStartsWith(c, cls) == c = cls \/ <<cls, c>> \in ClassPrefixes

\* class="[^"]*btn[^"]*": the class attribute contains "btn".
BtnClasses == {"btn", "btn-primary", "discount-cta-btn"}
ClsHasBtn(c) == c \in BtnClasses

\* ([^<]+): a body of at least one character without markup.
PlainBody(e) == e.body # <<>> /\ ~HasTag(e.body)

\* The common shape of the span, div and link matchers: the first element the
\* regex matches is taken if it is neither skipped nor holds '{{'.
matchClassed(m, pk, j, prefix) ==
    IF j # 0 /\ ~shouldSkip(m.line[j].body) /\ ~HasPh(m.line[j].body)
    THEN extractPageText(m, m.line, j, pk, prefix)
    ELSE m

matchSpan(m, pk, c) ==
    matchClassed(m, pk,
        FirstIn(m.line, LAMBDA e :
            e.tag = "span" /\ ClsStartsWith(e.cls, c.cls) /\ PlainBody(e)),
        "span_" \o c.u)

matchSpans(m, pk) ==
    Loop(m, 1, Len(spanClasses), LAMBDA x, n : matchSpan(x, pk, spanClasses[n]))

matchDiv(m, pk, c) ==
    matchClassed(m, pk,
        FirstIn(m.line, LAMBDA e : e.tag = "div" /\ e.cls = c.cls /\ PlainBody(e)),
        "div_" \o c.u)

matchDivs(m, pk) ==
    Loop(m, 1, Len(divClasses), LAMBDA x, n : matchDiv(x, pk, divClasses[n]))

sharedBtns == <<
    [text |-> "Review", key |-> "btn_review"],
    [text |-> "Buy", key |-> "btn_buy"],
    [text |-> "Buy Now", key |-> "btn_buy_now"] >>

matchButton(m, pk) ==
    LET j == FirstIn(m.line, LAMBDA e :
                 e.tag \in {"button", "a"} /\ ClsHasBtn(e.cls) /\ PlainBody(e))
        text == Trim(m.line[j].body)
        sh == linkTextKey(sharedBtns, text)
    IN  IF j # 0 /\ ~shouldSkip(m.line[j].body) /\ ~HasPh(m.line[j].body)
        THEN IF sh # ""
             THEN [m EXCEPT !.loc = addShared(m.loc, sh, text),
                            !.line = [m.line EXCEPT ![j].body = <<T("shared", sh)>>]]
             ELSE LET c == cntAfter(m.cnt, "btn")
                      k == keyOf(c, "btn")
                  IN  [line |-> [m.line EXCEPT ![j].body = <<T(pk, k)>>],
                       loc |-> addString(m.loc, pk, k, text),
                       cnt |-> c]
        ELSE m

matchLink(m, pk, c) ==
    matchClassed(m, pk,
        FirstIn(m.line, LAMBDA e : e.tag = "a" /\ e.cls = c.cls /\ PlainBody(e)),
        "link_" \o c.u)

matchLinks(m, pk) ==
    Loop(m, 1, Len(linkClasses), LAMBDA x, n : matchLink(x, pk, linkClasses[n]))

\* All matchers on one scanned line, in the order of the loop body.
scanLine(m, pk) ==
    Then(matchHeadings(m, m.line, pk), LAMBDA a :
    Then(matchParagraph(a, pk), LAMBDA b :
    Then(matchTableHeaders(b), LAMBDA c :
    Then(matchDataLabels(c), LAMBDA d :
    Then(matchSpans(d, pk), LAMBDA e :
    Then(matchDivs(e, pk), LAMBDA f :
    Then(matchButton(f, pk), LAMBDA g :
    matchLinks(g, pk))))))))

LineHas(line, tags) == \E j \in 1..Len(line) : line[j].tag \in tags

\* One iteration of the line loop; s = [html, loc, cnt, inScript, inStyle, inFooter].
bodyLine(s, pk, i) ==
    LET line == s.html[i]
        scr == s.inScript \/ LineHas(line, {"script", "jsonld"})
        sty == s.inStyle \/ LineHas(line, {"style"})
        foot == s.inFooter \/ (\E j \in 1..Len(line) : line[j].cls = "footer")
        m == scanLine([line |-> line, loc |-> s.loc, cnt |-> s.cnt], pk)
    IN  IF LineHas(line, {"/script", "jsonld"})
        THEN [s EXCEPT !.inScript = FALSE]
        ELSE IF LineHas(line, {"/style"})
        THEN [s EXCEPT !.inScript = scr, !.inStyle = FALSE]
        ELSE IF scr \/ sty \/ foot \/ LineHasT(line)
        THEN [s EXCEPT !.inScript = scr, !.inStyle = sty, !.inFooter = foot]
        ELSE [s EXCEPT !.html[i] = m.line, !.loc = m.loc, !.cnt = m.cnt,
                       !.inScript = scr, !.inStyle = sty, !.inFooter = foot]

extractBodyText(st, pk) ==
    LET s == Loop([html |-> st.html, loc |-> st.loc, cnt |-> [x \in {} |-> 0],
                   inScript |-> FALSE, inStyle |-> FALSE, inFooter |-> FALSE],
                  1, Len(st.html), LAMBDA x, i : bodyLine(x, pk, i))
    IN  [html |-> s.html, loc |-> s.loc]

-----------------------------------------------------------------------------
(* extract.js PHASE 6: footer *)

h4Map == <<
    [text |-> "Model Y Mattresses", key |-> "footer_col_model_y"],
    [text |-> "Model 3 Mattresses", key |-> "footer_col_model_3"],
    [text |-> "Discount Codes", key |-> "footer_col_discounts"],
    [text |-> "Resources", key |-> "footer_col_resources"],
    [text |-> "Compare", key |-> "footer_col_compare"],
    [text |-> "Comparisons", key |-> "footer_col_comparisons"] >>

footerLinks == <<
    [text |-> "Snuuzu Model Y Review", key |-> "fl_snuuzu_y"],
    [text |-> "Havnby Autolevel Review", key |-> "fl_havnby_autolevel"],
    [text |-> "TESMAT Luxe Model Y", key |-> "fl_tesmat_luxe_y"],
    [text |-> "Havnby Solo Review", key |-> "fl_havnby_solo"],
    [text |-> "TESMAT Solo Model Y", key |-> "fl_tesmat_solo_y"],
    [text |-> "NovaPads Air-Foam Pro Review", key |-> "fl_novapads"],
    [text |-> "Snuuzu Model 3 Review", key |-> "fl_snuuzu_3"],
    [text |-> "TESMAT Luxe Model 3", key |-> "fl_tesmat_luxe_3"],
    [text |-> "TESMAT Solo Model 3", key |-> "fl_tesmat_solo_3"],
    [text |-> "Havnby Foam Y/3 Review", key |-> "fl_havnby_foam"],
    [text |-> "All Discount Codes", key |-> "fl_all_discounts"],
    [text |-> "Snuuzu Discount Code", key |-> "fl_snuuzu_discount"],
    [text |-> "Havnby Discount Code", key |-> "fl_havnby_discount"],
    [text |-> "NovaPads Discount Code", key |-> "fl_novapads_discount"],
    [text |-> "Mattress Comparison", key |-> "fl_comparison"],
    [text |-> "Exclusive Codes", key |-> "fl_exclusive_codes"],
    [text |-> "Partner Brands", key |-> "fl_partner_brands"],
    [text |-> "About Us", key |-> "fl_about"],
    [text |-> "All Comparisons", key |-> "fl_all_comparisons"],
    [text |-> "Methodology", key |-> "fl_methodology"],
    [text |-> "Affiliate Disclosure", key |-> "fl_disclosure"] >>

Between(html, lo, hi, P(_)) ==
    MinPos({p \in AllPos(html) : PosLess(lo, p) /\ PosLess(p, hi) /\ P(At(html, p))})

\* content.replace(/(<p class="cls">)([^<]+)(<\/p>)/, ...) with addShared(key, text.trim())
footerParagraph(st, lo, hi, cls, key) ==
    LET p == Between(st.html, lo, hi, LAMBDA e : e.tag = "p" /\ e.cls = cls /\ PlainBody(e))
        e == At(st.html, p)
    IN  IF p = NoPos THEN st
        ELSE [html |-> SetAt(st.html, p, [e EXCEPT !.body = <<T("shared", key)>>]),
              loc |-> addShared(st.loc, key, Trim(e.body))]

\* addShared(key, text); content.replace(`<h4>${text}</h4>`, ...) for each heading
footerHeading(st, lo, hi, h) ==
    LET p == Between(st.html, lo, hi, LAMBDA e :
                 e.tag = "h4" /\ e.cls = "" /\ e.body = <<Ch(h.text)>>)
    IN  [html |-> IF p = NoPos THEN st.html
                  ELSE SetAt(st.html, p, [At(st.html, p) EXCEPT !.body = <<T("shared", h.key)>>]),
         loc |-> addShared(st.loc, h.key, <<Ch(h.text)>>)]

footerHeadings(st, lo, hi) ==
    Loop(st, 1, Len(h4Map), LAMBDA s, n : footerHeading(s, lo, hi, h4Map[n]))

\* /(&copy; \d+ Teslamattress\. )([^<]+)(<a)/: the copyright line, its text after
\* the fixed prefix, directly followed by a link.
footerRights(st, lo, hi) ==
    LET p == Between(st.html, lo, hi, LAMBDA e : e.tag = "copyright" /\ PlainBody(e))
        nxt == FirstPosAfter(st.html, p, LAMBDA e : TRUE)
        e == At(st.html, p)
    IN  IF p = NoPos \/ nxt = NoPos \/ ~PosLess(nxt, hi) \/ At(st.html, nxt).tag # "a" THEN st
        ELSE [html |-> SetAt(st.html, p,
                          [e EXCEPT !.body = <<T("shared", "footer_rights"), Ch(" ")>>]),
              loc |-> addShared(st.loc, "footer_rights", Trim(e.body))]

templateFooter(st) ==
    LET lo == FirstPos(st.html, LAMBDA e : e.tag = "footer" /\ e.cls = "footer")
        hi == FirstPosAfter(st.html, lo, LAMBDA e : e.tag = "/footer")
    IN  IF lo = NoPos \/ hi = NoPos THEN st
        ELSE
        Then(footerParagraph(st, lo, hi, "footer-tagline", "footer_tagline"), LAMBDA a :
        Then(footerHeadings(a, lo, hi), LAMBDA b :
        Then([html |-> replaceLinkTexts(b.html, footerLinks, lo, hi),
              loc |-> addSharedAll(b.loc, footerLinks)], LAMBDA c :
        Then(footerParagraph(c, lo, hi, "disclaimer", "footer_disclaimer"), LAMBDA d :
        footerRights(d, lo, hi)))))

-----------------------------------------------------------------------------
(* extract.js PHASE 7: region popup *)

\* <div class="region-popup-content"> ... <button>..</button> \n <h3>text</h3>:
\* an attribute-less h3 that opens the line after one ending with a button,
\* somewhere after the popup's div.
popupTitlePos(html) ==
    LET d == FirstPos(html, LAMBDA e : e.tag = "div" /\ e.cls = "region-popup-content")
    IN  IF d = NoPos THEN NoPos
        ELSE MinPos({p \in AllPos(html) :
                /\ PosLess(d, p) /\ p[1] > 1 /\ p[2] = 1
                /\ At(html, p).tag = "h3" /\ At(html, p).cls = "" /\ PlainBody(At(html, p))
                /\ html[p[1] - 1] # <<>>
                /\ PosLeq(d, <<p[1] - 1, Len(html[p[1] - 1])>>)
                /\ d # <<p[1] - 1, Len(html[p[1] - 1])>>
                /\ LET b == html[p[1] - 1][Len(html[p[1] - 1])]
                   IN  b.tag = "button" /\ ~HasTag(b.body)})

popupText(st, p, key) ==
    IF p = NoPos THEN st
    ELSE [html |-> SetAt(st.html, p, [At(st.html, p) EXCEPT !.body = <<T("shared", key)>>]),
          loc |-> addShared(st.loc, key, Trim(At(st.html, p).body))]

\* html.replace(/(<span class="region-name">)NAME(<\/span>)/g, ...)
regionName(st, name, key) ==
    LET hit(e) == e.tag = "span" /\ e.cls = "region-name" /\ e.body = <<Ch(name)>>
    IN  IF \E p \in AllPos(st.html) : hit(At(st.html, p))
        THEN [html |-> [i \in 1..Len(st.html) |-> [j \in 1..Len(st.html[i]) |->
                           IF hit(st.html[i][j])
                           THEN [st.html[i][j] EXCEPT !.body = <<T("shared", key)>>]
                           ELSE st.html[i][j]]],
              loc |-> addShared(st.loc, key, <<Ch(name)>>)]
        ELSE st

templateRegionPopup(st) ==
    Then(popupText(st, popupTitlePos(st.html), "region_title"), LAMBDA a :
    Then(popupText(a, FirstPos(a.html, LAMBDA e :
             e.tag = "p" /\ e.cls = "region-popup-subtitle" /\ PlainBody(e)),
             "region_subtitle"), LAMBDA b :
    Then(popupText(b, FirstPos(b.html, LAMBDA e :
             e.tag = "p" /\ e.cls = "region-discount"), "region_discount_text"), LAMBDA c :
    Then(regionName(c, "Europe", "region_europe"), LAMBDA d :
    regionName(d, "United States", "region_us")))))

-----------------------------------------------------------------------------
(* extract.js PHASE 8: internal links.  An href is a text: "/" first when it
   is root-relative, then the path in atoms. *)

AssetExtensions == {".css", ".js", ".svg", ".png", ".jpg", ".jpeg", ".webp", ".json",
                    ".ico", ".xml", ".txt"}
AssetPrefixes == {"images/", "_vercel/", "favicon", "apple-touch"}

\* /\.(css|js|...)(\?|$)/.test(p)
HasAssetExtension(h) ==
    \E n \in 1..Len(h) : /\ h[n].k = "c" /\ h[n].a \in AssetExtensions
                         /\ (n = Len(h) \/ h[n + 1] = Ch("?"))

IsRootRelative(h) == h # <<>> /\ h[1] = Ch("/")

linkKept(h) ==
    \/ HasAssetExtension(h)
    \/ (Len(h) >= 2 /\ h[2].k = "c" /\ h[2].a \in AssetPrefixes)
    \/ HasPh(h)

prefixHref(h) ==
    IF IsRootRelative(h) /\ ~linkKept(h) THEN <<Ch("/"), S("localePath")>> \o Tail(h) ELSE h

\* Inline markup <a href="..."> inside a text: token Tag("a", href).  The hrefs
\* of inline links are whole atoms; these are the root-relative page links
\* among them.  Tag("a:localePath", href) is the link with {{localePath}}
\* inserted after its leading slash.
InlinePageHrefs == {"/reviews", "/about"}

prefixInline(t) ==
    [n \in 1..Len(t) |->
        IF t[n].k = "tag" /\ t[n].a = "a" /\ t[n].b \in InlinePageHrefs
        THEN [t[n] EXCEPT !.a = "a:localePath"]
        ELSE t[n]]

templateInternalLinks(html) ==
    [i \in 1..Len(html) |-> [j \in 1..Len(html[i]) |->
        LET e == html[i][j]
        IN  [e EXCEPT !.attr = IF e.tag \in {"a", "link"} THEN prefixHref(@) ELSE @,
                      !.body = prefixInline(@)]]]

-----------------------------------------------------------------------------
(* extract.js: processPage and the run *)

\* The page registry src/pages.json, as far as the model goes.  A path is a
\* sequence of atoms: the part before the file name's ending, and the ending.
PAGES == <<
    [pageKey |-> "home", template |-> <<"index.html">>, output |-> <<"index.html">>],
    [pageKey |-> "disclosure", template |-> <<"disclosure", ".html">>,
     output |-> <<"disclosure", ".html">>],
    [pageKey |-> "discount_tesery", template |-> <<"discounts/tesery", ".html">>,
     output |-> <<"discounts/tesery", ".html">>] >>

PageKeys == {PAGES[n].pageKey : n \in 1..Len(PAGES)}

RedirectKey == "discount_tesery"

NovapadsRefresh == <<Ch("0;url=/"), Ch("discounts/novapads")>>
NovapadsHref == <<Ch("/"), Ch("discounts/novapads")>>

\* The minimal templating of the redirect page.
templateRedirect(html) ==
    LET h1 == templateHtmlLang(html)
        h2 == templateAttr(h1, "link", "canonical", "canonicalUrl", "")
        r == FirstPos(h2, LAMBDA e : e.tag = "meta" /\ e.cls = "refresh"
                                      /\ e.attr = NovapadsRefresh)
        h3 == IF r = NoPos THEN h2
              ELSE SetAt(h2, r, [At(h2, r) EXCEPT !.attr =
                       <<Ch("0;url=/"), S("localePath"), Ch("discounts/novapads")>>])
        a == FirstPos(h3, LAMBDA e : e.tag \in {"a", "link"} /\ e.attr = NovapadsHref)
    IN  IF a = NoPos THEN h3
        ELSE SetAt(h3, a, [At(h3, a) EXCEPT !.attr =
                 <<Ch("/"), S("localePath"), Ch("discounts/novapads")>>])

\* The eight passes in the order of processPage.
extractPasses(st, pk) ==
    Then(extractMeta(st, pk), LAMBDA a :
    Then([html |-> templateStructural(a.html), loc |-> a.loc], LAMBDA b :
    Then(extractJsonLd(b, pk), LAMBDA c :
    Then(templateNav(c), LAMBDA d :
    Then(extractBodyText(d, pk), LAMBDA e :
    Then(templateFooter(e), LAMBDA f :
    Then(templateRegionPopup(f), LAMBDA g :
    [html |-> templateInternalLinks(g.html), loc |-> g.loc])))))))

\* processPage on source text `source` (or NoFile) with dictionary `loc`:
\* the template written (or NoFile when nothing is written) and the dictionary.
processPage(page, source, loc) ==
    LET pk == page.pageKey
    IN  IF source = NoFile THEN [tpl |-> NoFile, loc |-> loc]
        ELSE Then((pk :> EmptyObj) @@ loc, LAMBDA fresh :
             IF pk = RedirectKey
             THEN [tpl |-> File(templateRedirect(source[1])), loc |-> fresh]
             ELSE Then(extractPasses([html |-> source[1], loc |-> fresh], pk), LAMBDA out :
                  [tpl |-> File(out.html), loc |-> out.loc]))

MetaEn == ("locale" :> <<Ch("en")>>) @@ ("locale_path" :> <<>>)
          @@ ("og_locale" :> <<Ch("en_US")>>) @@ ("html_lang" :> <<Ch("en")>>)

\* enJson = { _meta, shared, and every page scope that holds a key }
enJsonOf(loc) ==
    LET scopes == {"_meta", "shared"} \cup
                  {pk \in PageKeys : pk \in DOMAIN loc /\ DOMAIN loc[pk] # {}}
    IN  [s \in scopes |-> IF s = "_meta" THEN MetaEn ELSE loc[s]]

InitLocale == ("shared" :> EmptyObj)

XProcessPage ==
    /\ xpc = "pages"
    /\ xi <= Len(PAGES)
    /\ \E r \in {processPage(PAGES[xi], src[PAGES[xi].pageKey], locale)} :
          /\ templates' = IF r.tpl = NoFile THEN templates
                          ELSE [templates EXCEPT ![PAGES[xi].pageKey] = r.tpl]
          /\ locale' = r.loc
    /\ xi' = xi + 1
    /\ UNCHANGED <<src, enJson, xpc, xrun, prevTemplates, prevEnJson, bvars, vvars, tvars>>

XWriteEnJson ==
    /\ xpc = "pages"
    /\ xi > Len(PAGES)
    /\ enJson' = File(enJsonOf(locale))
    /\ xpc' = "done"
    /\ UNCHANGED <<src, templates, locale, xi, xrun, prevTemplates, prevEnJson, bvars, vvars, tvars>>

MaxRuns == 2

\* The templates are put in the place of the raw pages and the script is
\* started again: extract(extract(page).template).
XReExtract ==
    /\ xpc = "done"
    /\ xrun < MaxRuns
    /\ src' = templates
    /\ prevTemplates' = templates
    /\ prevEnJson' = enJson
    /\ locale' = InitLocale
    /\ xi' = 1
    /\ xpc' = "pages"
    /\ xrun' = xrun + 1
    /\ UNCHANGED <<templates, enJson, bvars, vvars, tvars>>

-----------------------------------------------------------------------------
(* Raw pages the extraction runs start from *)

tPr == Txt(<<"P", "r">>)
tPR == Txt(<<"P", "R">>)
tSpPr == Txt(<<" ", "P", "r">>)
tNum == Txt(<<"1", "2">>)
tLong == <<Ch("A car bed"), Ch(" "), Ch("up")>>
tUrl == <<Ch("https"), Ch("://teslamattress.com/")>>

LineHead == <<Elem("html", "", <<Ch("en")>>, <<>>), Elem("title", "", <<>>, tSpPr),
              Elem("meta", "name:description", tPr, <<>>),
              Elem("link", "canonical", tUrl, <<>>)>>
LineSocial == <<Elem("meta", "property:og:title", <<Ch(" ")>>, <<>>),
                Elem("meta", "property:og:url", tUrl, <<>>),
                Elem("meta", "property:og:locale", <<Ch("en_US")>>, <<>>)>>
LineNav == <<Elem("ul", "nav-links", <<>>, <<>>),
             Elem("a", "", <<Ch("/"), Ch("reviews")>>, <<Ch("Reviews")>>),
             Elem("a", "", <<Ch("/"), Ch("images/"), Ch("x"), Ch(".png")>>, tPr),
             Elem("/ul", "", <<>>, <<>>)>>
LineHeadings == <<Elem("h1", "", <<>>, tPr), Elem("h2", "", <<>>, tPR)>>
LineParagraph == <<Elem("p", "", <<>>,
                        <<Ch("P"), Tag("a", "/reviews"), Ch("r"), Tag("/a", "")>>),
                   Elem("p", "", <<>>, tPR)>>
LineNumbers == <<Elem("p", "", <<>>, tNum), Elem("h3", "", <<>>, tSpPr),
                 Elem("h4", "", <<>>, <<Tag("b", ""), Ch("P"), Tag("/b", "")>>)>>
LineTable == <<Elem("th", "", <<>>, tPr), Elem("th", "", <<>>, tPR),
               Elem("th", "", <<>>, tSpPr), Elem("th", "", <<>>, Txt(<<"#", "1">>))>>
LineCells == <<Elem("td", "", tPr, tNum), Elem("td", "", Txt(<<"P", "!">>), tNum),
               Elem("td", "", tNum, tNum)>>
LineSpans == <<Elem("span", "score-label", <<>>, tPr),
               Elem("span", "discount-badge-new", <<>>, tPR),
               Elem("div", "stat-number", <<>>, tNum),
               Elem("div", "stat-label", <<>>, tPr)>>
LineButtons == <<Elem("a", "btn", <<Ch("/"), Ch("about")>>, <<Ch("Buy")>>),
                 Elem("button", "btn-primary", <<>>, tPr),
                 Elem("a", "discount-details-link", <<Ch("/"), Ch("discounts")>>, tPR)>>
LineScript == <<Elem("script", "", <<>>, <<>>), Elem("h1", "", <<>>, tPr)>>
LineRegion == <<Elem("/script", "", <<>>, <<>>),
                Elem("span", "region-name", <<>>, <<Ch("Europe")>>),
                Elem("style", "", <<>>, <<>>)>>
LineFooter == <<Elem("footer", "footer", <<>>, <<>>),
                Elem("p", "footer-tagline", <<>>, tPr),
                Elem("h4", "", <<>>, <<Ch("Compare")>>),
                Elem("a", "", <<Ch("/"), Ch("about")>>, <<Ch("About Us")>>),
                Elem("p", "disclaimer", <<>>, tPR),
                Elem("copyright", "", <<>>, <<Ch("All rights reserved."), Ch(" ")>>),
                Elem("a", "", <<Ch("/"), Ch("disclosure")>>, <<Ch("Affiliate Disclosure")>>),
                Elem("/footer", "", <<>>, <<>>)>>
LineJsonLd == <<JsonLd(<<
                  JObj("Product", FALSE, ("description" :> tLong) @@ ("name" :> tLong)
                                         @@ ("url" :> tUrl)),
                  JObj("Brand", FALSE, ("name" :> tLong))>>)>>
\* A second block JSON.parse rejects: a string with an unescaped quote around
\* the target of a link, {"text": "<a href="/reviews">r</a>"}.
MalformedJsonLdLink ==
    [MalformedJsonLd EXCEPT !.body = <<Ch("{"), Tag("a", "/reviews"), Ch("r"), Tag("/a", "")>>]

LineBadJsonLd == <<MalformedJsonLd,
                   JsonLd(<<JObj("ListItem", TRUE, ("name" :> tLong) @@ ("text" :> tLong))>>),
                   MalformedJsonLdLink>>
LinePopupTop == <<Elem("div", "region-popup-content", <<>>, <<>>),
                  Elem("button", "", <<>>, <<Ch("x")>>)>>
LinePopup == <<Elem("h3", "", <<>>, tPr),
               Elem("p", "region-popup-subtitle", <<>>, tPR),
               Elem("p", "region-discount", <<>>, <<>>)>>

\* A title of white space only, and a structured-data block with a short
\* description and the name of an object that is no brand.
LineBlank == <<Elem("title", "", <<>>, <<Ch(" ")>>),
               JsonLd(<<JObj("Review", FALSE, ("description" :> tPr) @@ ("name" :> tLong))>>)>>

LineCat == {LineHead, LineSocial, LineNav, LineHeadings, LineParagraph, LineNumbers, LineTable,
            LineCells, LineSpans, LineButtons, LineScript, LineRegion, LineFooter,
            LineJsonLd, LineBadJsonLd, LinePopupTop, LinePopup, LineBlank}

MaxLines == 2

\* The second page of the registry: a heading of its own, another tagline, a
\* colliding table header.
DisclosureRaw == <<
    <<Elem("html", "", <<Ch("en")>>, <<>>), Elem("title", "", <<>>, tPR),
      Elem("meta", "robots", <<Ch("noindex")>>, <<>>)>>,
    <<Elem("h1", "", <<>>, tPR)>>,
    <<Elem("th", "", <<>>, tPR), Elem("td", "", Txt(<<"P", "?">>), tNum)>>,
    <<Elem("footer", "footer", <<>>, <<>>), Elem("p", "footer-tagline", <<>>, tPR),
      Elem("/footer", "", <<>>, <<>>)>> >>

RedirectRaw == <<
    <<Elem("html", "", <<Ch("en")>>, <<>>), Elem("link", "canonical", tUrl, <<>>),
      Elem("meta", "refresh", NovapadsRefresh, <<>>)>>,
    <<Elem("a", "", NovapadsHref, tPr)>> >>

\* build.js and verify.js have not been started.
BIdle ==
    /\ localeFiles = <<>> /\ selectedLocales = <<>> /\ locales = <<>>
    /\ dist = <<>> /\ sitemap = NoFile /\ bwarn = <<>>
    /\ bpc = "idle" /\ bi = 1 /\ bj = 1

VIdle ==
    /\ LOCALES = <<>> /\ errors = 0 /\ warnings = 0 /\ errlog = <<>>
    /\ vpc = "idle" /\ exitCode = -1

TIdle ==
    /\ selectedSections = <<>> /\ tLocaleData = <<>> /\ tpc = "idle" /\ ti = 1 /\ tj = 1
    /\ trun = 1 /\ calls = {} /\ tlog = {} /\ filesAtStart = <<>> /\ tends = <<>>

XInit ==
    /\ \E n \in 0..MaxLines : \E h \in [1..n -> LineCat] :
       \E d \in {NoFile, File(DisclosureRaw)} :
          src = [pk \in PageKeys |->
                    CASE pk = "home" -> File(h)
                      [] pk = "disclosure" -> d
                      [] OTHER -> File(RedirectRaw)]
    /\ templates = [pk \in PageKeys |-> NoFile]
    /\ locale = InitLocale
    /\ enJson = NoFile
    /\ xpc = "pages"
    /\ xi = 1
    /\ xrun = 1
    /\ prevTemplates = [pk \in PageKeys |-> NoFile]
    /\ prevEnJson = NoFile
    /\ BIdle /\ VIdle /\ TIdle

XNext == XProcessPage \/ XWriteEnJson \/ XReExtract

SpecExtract == XInit /\ [][XNext]_vars

-----------------------------------------------------------------------------
(* build.js: rendering *)

BASE_URL == "https://teslamattress.com"

ALL_LOCALES == <<"en", "de", "fr", "no", "da", "sv">>

LOCALE_CONFIG ==
    [loc \in {"en", "de", "fr", "no", "da", "sv"} |->
        CASE loc = "en" -> [locale_path |-> "", og_locale |-> "en_US", html_lang |-> "en",
                            hreflang |-> "en", name |-> "English"]
          [] loc = "de" -> [locale_path |-> "de/", og_locale |-> "de_DE", html_lang |-> "de",
                            hreflang |-> "de", name |-> "Deutsch"]
          [] loc = "fr" -> [locale_path |-> "fr/", og_locale |-> "fr_FR", html_lang |-> "fr",
                            hreflang |-> "fr", name |-> "Francais"]
          [] loc = "no" -> [locale_path |-> "no/", og_locale |-> "nb_NO", html_lang |-> "nb",
                            hreflang |-> "nb", name |-> "Norsk"]
          [] loc = "da" -> [locale_path |-> "da/", og_locale |-> "da_DK", html_lang |-> "da",
                            hreflang |-> "da", name |-> "Dansk"]
          [] OTHER -> [locale_path |-> "sv/", og_locale |-> "sv_SE", html_lang |-> "sv",
                       hreflang |-> "sv", name |-> "Svenska"]]

\* A string as text: nothing when it is empty.
Str(s) == IF s = "" THEN <<>> ELSE <<Ch(s)>>

\* page.output.replace(/index\.html$/, '').replace(/\.html$/, '')
pagePathOf(page) ==
    LET out == page.output
        last == out[Len(out)]
    IN  IF last \in {"index.html", ".html"} THEN SubSeq(out, 1, Len(out) - 1) ELSE out

\* `${BASE_URL}/${locale_path}${pagePath}`
urlOf(localePath, pagePath) ==
    <<Ch(BASE_URL), Ch("/")>> \o Str(localePath) \o [n \in 1..Len(pagePath) |-> Ch(pagePath[n])]

generateHreflangTags(pagePath) ==
    [n \in 1..Len(ALL_LOCALES) |->
        LET cfg == LOCALE_CONFIG[ALL_LOCALES[n]]
        IN  Elem("link", "alternate:" \o cfg.hreflang, urlOf(cfg.locale_path, pagePath), <<>>)]
    \o <<Elem("link", "alternate:x-default", urlOf("", pagePath), <<>>)>>

generateOgLocaleAlternates(currentLocale) ==
    LET others == SelectSeq(ALL_LOCALES, LAMBDA loc : loc # currentLocale)
    IN  [n \in 1..Len(others) |->
            Elem("meta", "property:og:locale:alternate",
                 <<Ch(LOCALE_CONFIG[others[n]].og_locale)>>, <<>>)]

generateLangSwitcher(pagePath, currentLocale) ==
    LET cfg == LOCALE_CONFIG[currentLocale]
        links == [n \in 1..Len(ALL_LOCALES) |->
                    LET lCfg == LOCALE_CONFIG[ALL_LOCALES[n]]
                    IN  Elem("a", IF ALL_LOCALES[n] = currentLocale THEN "lang-active" ELSE "",
                             <<Ch("/")>> \o Str(lCfg.locale_path)
                                 \o [k \in 1..Len(pagePath) |-> Ch(pagePath[k])],
                             <<Ch(lCfg.name)>>)]
    IN  <<Elem("div", "lang-switcher", <<>>, <<>>),
          Elem("button", "lang-current", <<Ch("Language")>>, <<Ch(cfg.html_lang)>>),
          Elem("ul", "lang-dropdown", <<>>, <<>>)>>
        \o links
        \o <<Elem("/ul", "", <<>>, <<>>), Elem("/div", "", <<>>, <<>>)>>

\* Step 1 of buildPage on one token of a text.
structuralToken(tok, cfg, pagePath) ==
    IF tok.k = "s"
    THEN CASE tok.a = "htmlLang" -> <<Ch(cfg.html_lang)>>
           [] tok.a = "ogLocale" -> <<Ch(cfg.og_locale)>>
           [] tok.a = "localePath" -> Str(cfg.locale_path)
           [] tok.a \in {"canonicalUrl", "pageUrl"} -> urlOf(cfg.locale_path, pagePath)
           [] OTHER -> <<tok>>
    ELSE IF tok.k = "tag" /\ tok.a = "a:localePath"
    THEN <<Tag(IF cfg.locale_path = "" THEN "a" ELSE "a:" \o cfg.locale_path, tok.b)>>
    ELSE <<tok>>

\* The lookup of replaceTranslations looking at page scopes only.
FoundInPageScope(localeData, tok) ==
    tok.a # "shared" /\ tok.a \in DOMAIN localeData /\ tok.b \in DOMAIN localeData[tok.a]

\* localeData[section] && localeData[section][key] !== undefined
Found(localeData, tok) ==
    tok.a \in DOMAIN localeData /\ tok.b \in DOMAIN localeData[tok.a]

\* replaceTranslations returning nothing for a match that is not found.
replaceTranslationsEmpty(t, localeData) ==
    FlatMap(t, LAMBDA tok :
        IF tok.k = "t" THEN (IF Found(localeData, tok) THEN localeData[tok.a][tok.b] ELSE <<>>)
        ELSE <<tok>>)

\* replaceTranslations on a text: the value where it is found, the match where not.
replaceTranslations(t, localeData) ==
    FlatMap(t, LAMBDA tok :
        IF tok.k = "t" /\ Found(localeData, tok) THEN localeData[tok.a][tok.b] ELSE <<tok>>)

\* The console.warn lines of replaceTranslations on a text, in order.
missingIn(t, localeData) ==
    SelectSeq(t, LAMBDA tok : tok.k = "t" /\ ~Found(localeData, tok))

\* Steps 1 and 2 of buildPage on a text: translation values are put in after
\* the structural replacements and are not looked at again.
renderText(t, cfg, pagePath, localeData) ==
    replaceTranslations(FlatMap(t, LAMBDA tok : structuralToken(tok, cfg, pagePath)), localeData)

renderElem(e, lc, pagePath, localeData) ==
    LET cfg == LOCALE_CONFIG[lc]
        r(t) == renderText(t, cfg, pagePath, localeData)
    IN  IF e.tag = "ph" /\ e.body = <<S("hreflangTags")>> THEN generateHreflangTags(pagePath)
        ELSE IF e.tag = "ph" /\ e.body = <<S("ogLocaleAlternates")>>
        THEN generateOgLocaleAlternates(lc)
        ELSE IF e.tag = "ph" /\ e.body = <<S("langSwitcher")>>
        THEN generateLangSwitcher(pagePath, lc)
        ELSE << [e EXCEPT !.attr = r(@), !.body = r(@),
                          !.json = [n \in 1..Len(@) |->
                                      [@[n] EXCEPT !.f = [fld \in DOMAIN @ |-> r(@[fld])]]]] >>

\* The texts of an element, in document order.
textsOf(e) ==
    <<e.attr, e.body>>
    \o FlatMap(e.json, LAMBDA o :
           LET flds == SelectSeq(translatableFields, LAMBDA fld : fld \in DOMAIN o.f)
           IN  [n \in 1..Len(flds) |-> o.f[flds[n]]])

\* All elements of a page, in document order.
elementsOf(html) == FlatMap(html, LAMBDA line : line)

\* The output of buildPage for a template that exists, and its warnings.
renderPage(html, page, lc, localeData) ==
    [html |-> [i \in 1..Len(html) |->
                  FlatMap(html[i], LAMBDA e : renderElem(e, lc, pagePathOf(page), localeData))],
     warns |-> FlatMap(elementsOf(html), LAMBDA e :
                  FlatMap(textsOf(e), LAMBDA t :
                      missingIn(FlatMap(t, LAMBDA tok :
                          structuralToken(tok, LOCALE_CONFIG[lc], pagePathOf(page))),
                          localeData)))]

-----------------------------------------------------------------------------
(* Properties of extraction *)

\* All texts of a page, in document order.
pageTexts(html) == FlatMap(elementsOf(html), textsOf)

\* The translation placeholders of a page.
placeholdersOf(html) ==
    LET ts == pageTexts(html)
    IN  UNION {{ts[n][k] : k \in {q \in 1..Len(ts[n]) : ts[n][q].k = "t"}} : n \in 1..Len(ts)}

RunDone(n) == xpc = "done" /\ xrun = n

\* C1: extraction is idempotent on templates: a run whose pages are the
\* templates of the run before it writes templates identical to those it read.
C1_TemplateIdempotent ==
    (xpc = "done" /\ xrun >= 2) => \A pk \in PageKeys : templates[pk] = prevTemplates[pk]

\* C2: extraction is idempotent on the dictionary: a run whose pages are the
\* templates of the run before it writes a dictionary that has no key the
\* earlier one lacked and no value differing from the earlier one's.
C2_DictionaryIdempotent ==
    (xpc = "done" /\ xrun >= 2) =>
        \A s \in DOMAIN enJson[1] :
            /\ s \in DOMAIN prevEnJson[1]
            /\ \A k \in DOMAIN enJson[1][s] :
                  /\ k \in DOMAIN prevEnJson[1][s]
                  /\ enJson[1][s][k] = prevEnJson[1][s][k]

\* The elements of a template that stand where the raw page had an element:
\* all but the structural placeholders put between elements.
ownElements(html) == SelectSeq(elementsOf(html), LAMBDA e : e.tag # "ph")

\* Page pk rendered for `en` with the dictionary of this run gives back, up
\* to surrounding white space, the raw text wherever the template holds a
\* translation placeholder.
RoundTrip(pk) ==
    LET raw == elementsOf(src[pk][1])
        tpl == ownElements(templates[pk][1])
        path == pagePathOf(PAGES[CHOOSE n \in 1..Len(PAGES) : PAGES[n].pageKey = pk])
    IN  \A n \in 1..Len(raw) : \A k \in 1..Len(textsOf(raw[n])) :
            HasT(textsOf(tpl[n])[k]) =>
                Trim(renderText(textsOf(tpl[n])[k], LOCALE_CONFIG["en"], path, enJson[1]))
                    = Trim(textsOf(raw[n])[k])

\* C3: round-trip fidelity for the source locale: after an extraction run over
\* raw pages, rendering each template with the English dictionary of that run
\* puts back the literal string at every position that was replaced.
C3_RoundTripFidelity ==
    RunDone(1) => \A pk \in PageKeys : templates[pk] # NoFile => RoundTrip(pk)

\* The pages a run reads hold no translation placeholder: they are raw pages.
RawInput == \A pk \in PageKeys : src[pk] # NoFile => placeholdersOf(src[pk][1]) = {}

\* C4: key-surface invariant: after an extraction run over raw pages, every
\* translation placeholder of every template written by the run names a
\* (scope, key) pair of the English dictionary written by the run.
C4_KeySurface ==
    (xpc = "done" /\ RawInput) =>
        \A pk \in PageKeys : templates[pk] # NoFile =>
            \A tok \in placeholdersOf(templates[pk][1]) : HasKey(enJson[1], tok.a, tok.b)

\* A finished run over raw pages whose home template holds a page-scoped and a
\* shared placeholder, and whose disclosure template holds placeholders too.
C4_Witness ==
    /\ xpc = "done" /\ RawInput
    /\ \E t1, t2 \in placeholdersOf(templates["home"][1]) : t1.a = "home" /\ t2.a = "shared"
    /\ templates["disclosure"] # NoFile
    /\ placeholdersOf(templates["disclosure"][1]) # {}

-----------------------------------------------------------------------------
(* build.js: main *)

LocaleCodes == {ALL_LOCALES[n] : n \in 1..Len(ALL_LOCALES)}

\* selectedLocales || ALL_LOCALES
toLoad == IF selectedLocales = <<>> THEN ALL_LOCALES ELSE selectedLocales

\* src/locales/<loc>.json
localeFile(loc) ==
    IF loc = "en" THEN enJson
    ELSE IF loc \in DOMAIN localeFiles THEN localeFiles[loc]
    ELSE NoFile

\* The object loadLocales returns: the dictionaries of the files that exist.
loadLocales ==
    [loc \in {toLoad[n] : n \in {k \in 1..Len(toLoad) : localeFile(toLoad[k]) # NoFile}}
        |-> localeFile(loc)[1]]

\* The warnings of loadLocales, in the order of toLoad.
loadWarnings ==
    LET gone == SelectSeq(toLoad, LAMBDA loc : localeFile(loc) = NoFile)
    IN  [n \in 1..Len(gone) |->
            [w |-> "locale not found", loc |-> gone[n], page |-> "", section |-> "", key |-> ""]]

\* Object.keys(locales): the loaded locales in the order they were loaded.
localeKeys == SelectSeq(toLoad, LAMBDA loc : loc \in DOMAIN locales)

\* xhtml:link lines that all carry the unprefixed address of the page.
sitemapLinksUnprefixed(pagePath) ==
    [m \in 1..Len(ALL_LOCALES) |->
        [hreflang |-> LOCALE_CONFIG[ALL_LOCALES[m]].hreflang, href |-> urlOf("", pagePath)]]
    \o <<[hreflang |-> "x-default", href |-> urlOf("", pagePath)]>>

\* The xhtml:link lines under one <url> entry: hreflangs, then xdefault.
sitemapLinks(pagePath) ==
    [m \in 1..Len(ALL_LOCALES) |->
        LET lCfg == LOCALE_CONFIG[ALL_LOCALES[m]]
        IN  [hreflang |-> lCfg.hreflang, href |-> urlOf(lCfg.locale_path, pagePath)]]
    \o <<[hreflang |-> "x-default", href |-> urlOf("", pagePath)]>>

\* The <url> entries of sitemap.xml: its <loc> and the xhtml:link lines
\* under it.
generateSitemap(keys) ==
    FlatMap(PAGES, LAMBDA page :
        [n \in 1..Len(keys) |->
            [loc |-> urlOf(LOCALE_CONFIG[keys[n]].locale_path, pagePathOf(page)),
             links |-> sitemapLinks(pagePathOf(page))]])

\* main up to the build loop: dist is removed and made anew, the locales are loaded.
BLoadLocales ==
    /\ bpc = "start"
    /\ dist' = [p \in LocaleCodes \X PageKeys |-> NoFile]
    /\ sitemap' = NoFile
    /\ locales' = loadLocales
    /\ bwarn' = loadWarnings
    /\ bpc' = "build"
    /\ bi' = 1
    /\ bj' = 1
    /\ UNCHANGED <<localeFiles, selectedLocales, xvars, vvars, tvars>>

\* One turn of the inner build loop: buildPage(page, locale, locales[locale]).
BBuildPage ==
    /\ bpc = "build"
    /\ bi <= Len(localeKeys)
    /\ LET lc == localeKeys[bi]
           page == PAGES[bj]
           pk == page.pageKey
       IN  IF templates[pk] = NoFile
           THEN /\ bwarn' = Append(bwarn, [w |-> "Template not found", loc |-> lc, page |-> pk,
                                           section |-> "", key |-> ""])
                /\ dist' = dist
           ELSE LET r == renderPage(templates[pk][1], page, lc, locales[lc])
                IN  /\ bwarn' = bwarn \o [n \in 1..Len(r.warns) |->
                                    [w |-> "Missing", loc |-> lc, page |-> pk,
                                     section |-> r.warns[n].a, key |-> r.warns[n].b]]
                    /\ dist' = [dist EXCEPT ![<<lc, pk>>] = File(r.html)]
    /\ IF bj < Len(PAGES)
       THEN bj' = bj + 1 /\ bi' = bi
       ELSE bj' = 1 /\ bi' = bi + 1
    /\ UNCHANGED <<localeFiles, selectedLocales, locales, sitemap, bpc, xvars, vvars, tvars>>

\* main after the build loop: the sitemap is written.
BGenerateSitemap ==
    /\ bpc = "build"
    /\ bi > Len(localeKeys)
    /\ sitemap' = File(generateSitemap(localeKeys))
    /\ bpc' = "done"
    /\ UNCHANGED <<localeFiles, selectedLocales, locales, dist, bwarn, bi, bj, xvars, vvars, tvars>>

-----------------------------------------------------------------------------
(* verify.js *)

LOCALE_PATHS == ("en" :> "") @@ ("de" :> "de/") @@ ("fr" :> "fr/") @@ ("no" :> "no/")
                @@ ("da" :> "da/") @@ ("sv" :> "sv/")

HTML_LANGS == ("en" :> "en") @@ ("de" :> "de") @@ ("fr" :> "fr") @@ ("no" :> "nb")
              @@ ("da" :> "da") @@ ("sv" :> "sv")

\* path.join(locPath, page.output) under dist, as atoms.
distPath(loc, page) == (IF LOCALE_PATHS[loc] = "" THEN <<>> ELSE <<LOCALE_PATHS[loc]>>) \o page.output

\* The lines console.error writes for `for loc of LOCALES, for page of PAGES`,
\* F giving the lines of one file.
perFile(F(_, _)) ==
    FlatMap(LOCALES, LAMBDA loc : FlatMap(PAGES, LAMBDA page : F(loc, page)))

Exists(loc, page) == dist[<<loc, page.pageKey>>] # NoFile

Err(check, loc, page, n) == [check |-> check, loc |-> loc, page |-> page.pageKey, n |-> n]

\* html.match(/\{\{t\.[^}]+\}\}/g): the placeholders left in a page, in order.
unresolvedIn(html) ==
    SelectSeq(FlatMap(pageTexts(html), LAMBDA t : t), LAMBDA tok : tok.k = "t")

\* html.match(/content="undefined"|>undefined</g)
undefinedIn(html) ==
    FlatMap(elementsOf(html), LAMBDA e :
        (IF e.tag = "meta" /\ e.attr = <<Ch("undefined")>> THEN <<e>> ELSE <<>>)
        \o (IF e.body = <<Ch("undefined")>> THEN <<e>> ELSE <<>>))

\* html.match(/<html lang="([^"]+)">/): the lang values of the tags it matches.
htmlLangsIn(html) ==
    LET tags == SelectSeq(elementsOf(html),
                          LAMBDA e : e.tag = "html" /\ e.cls = "" /\ e.attr # <<>>)
    IN  [n \in 1..Len(tags) |-> Concat(Chars(tags[n].attr))]

HreflangValues == {LOCALE_CONFIG[loc].hreflang : loc \in LocaleCodes} \cup {"x-default"}

\* html.match(/hreflang="[^"]+"/g) mapped to the attribute values.
hreflangsIn(html) ==
    FlatMap(elementsOf(html), LAMBDA e :
        IF e.tag = "link" /\ \E h \in HreflangValues : e.cls = "alternate:" \o h
        THEN <<CHOOSE h \in HreflangValues : e.cls = "alternate:" \o h>>
        ELSE <<>>)

HreflangCount == 7

checkFileCount ==
    perFile(LAMBDA loc, page :
        IF Exists(loc, page) THEN <<>> ELSE <<Err("Missing", loc, page, 0)>>)

\* checkPlaceholders calling error() once for every match.
checkPlaceholdersPerMatch ==
    perFile(LAMBDA loc, page :
        IF ~Exists(loc, page) THEN <<>>
        ELSE LET matches == unresolvedIn(dist[<<loc, page.pageKey>>][1])
             IN  [n \in 1..Len(matches) |-> Err("unresolved", loc, page, Len(matches))])

checkPlaceholders ==
    perFile(LAMBDA loc, page :
        IF ~Exists(loc, page) THEN <<>>
        ELSE LET matches == unresolvedIn(dist[<<loc, page.pageKey>>][1])
             IN  IF matches # <<>> THEN <<Err("unresolved", loc, page, Len(matches))>>
                 ELSE <<>>)

checkUndefined ==
    perFile(LAMBDA loc, page :
        IF ~Exists(loc, page) THEN <<>>
        ELSE LET matches == undefinedIn(dist[<<loc, page.pageKey>>][1])
             IN  IF matches # <<>> THEN <<Err("undefined", loc, page, Len(matches))>>
                 ELSE <<>>)

checkHtmlLang ==
    perFile(LAMBDA loc, page :
        IF ~Exists(loc, page) THEN <<>>
        ELSE LET langMatch == htmlLangsIn(dist[<<loc, page.pageKey>>][1])
             IN  IF langMatch = <<>> THEN <<Err("missing <html lang>", loc, page, 0)>>
                 ELSE IF langMatch[1] # HTML_LANGS[loc] THEN <<Err("lang", loc, page, 0)>>
                 ELSE <<>>)

checkHreflang ==
    perFile(LAMBDA loc, page :
        IF ~Exists(loc, page) \/ page.pageKey = "discount_tesery" THEN <<>>
        ELSE LET hreflangValues == hreflangsIn(dist[<<loc, page.pageKey>>][1])
             IN  IF Len(hreflangValues) < HreflangCount
                 THEN <<Err("hreflang tags", loc, page, Len(hreflangValues))>>
                 ELSE IF \A n \in 1..Len(hreflangValues) : hreflangValues[n] # "x-default"
                 THEN <<Err("missing x-default", loc, page, 0)>>
                 ELSE <<>>)

\* (sitemap.match(/xhtml:link/g) || []).length
xhtmlLinks(urls) == Loop(0, 1, Len(urls), LAMBDA sum, n : sum + Len(urls[n].links))

\* checkSitemap: the error lines and the number of warnings.
checkSitemap ==
    IF sitemap = NoFile
    THEN [errs |-> <<[check |-> "sitemap.xml not found", loc |-> "", page |-> "", n |-> 0]>>,
          warns |-> 0]
    ELSE LET urlCount == Len(sitemap[1])
             localeCount == Len(SelectSeq(LOCALES, LAMBDA l : dist[<<l, "home">>] # NoFile))
             expectedUrls == Len(PAGES) * localeCount
         IN  [errs |-> IF xhtmlLinks(sitemap[1]) > 0 THEN <<>>
                       ELSE <<[check |-> "Sitemap missing hreflang", loc |-> "", page |-> "",
                               n |-> 0]>>,
              warns |-> IF urlCount = expectedUrls THEN 0 ELSE 1]


\* Atoms that end in a slash.
DirAtoms == {"de/", "fr/", "no/", "da/", "sv/", "images/", "_vercel/"}

VerifyAssetExtensions == {".css", ".js", ".svg", ".png", ".jpg", ".webp", ".json", ".xml",
                          ".txt", ".ico"}

\* The inline links of the pages, as the atoms after the leading slash.
InlineTargets == ("/reviews" :> "reviews") @@ ("/about" :> "about")

\* html.match(/href="\/[^"]*"/g): each href as the atoms after its leading slash.
linksIn(html) ==
    FlatMap(elementsOf(html), LAMBDA e :
        (IF e.tag \in {"a", "link"} /\ IsRootRelative(e.attr)
         THEN <<Chars(Tail(e.attr))>> ELSE <<>>)
        \o FlatMap(e.body, LAMBDA tok :
               IF tok.k = "tag" /\ tok.b \in DOMAIN InlineTargets
               THEN IF tok.a = "a" THEN << <<InlineTargets[tok.b]>> >>
                    ELSE IF \E d \in DirAtoms : tok.a = "a:" \o d
                    THEN << <<CHOOSE d \in DirAtoms : tok.a = "a:" \o d, InlineTargets[tok.b]>> >>
                    ELSE <<>>
               ELSE <<>>))

\* The hrefs the link check does not skip.
linkChecked(h) ==
    /\ \A n \in 1..Len(h) : h[n] # "#"
    /\ ~(h # <<>> /\ h[Len(h)] \in VerifyAssetExtensions)
    /\ ~(h # <<>> /\ h[1] = "_vercel/")

\* The files of dist, as paths.
distPaths ==
    LET pageOf(pk) == PAGES[CHOOSE n \in 1..Len(PAGES) : PAGES[n].pageKey = pk]
    IN  {distPath(p[1], pageOf(p[2])) : p \in {q \in DOMAIN dist : dist[q] # NoFile}}

\* fullPath, altPath and cleanPath of a checked href: none of them exists.
linkBroken(h) ==
    LET slash == h = <<>> \/ h[Len(h)] \in DirAtoms
        p1 == IF slash THEN h \o <<"index.html">> ELSE h
        checkPath == IF p1[Len(p1)] \in {"index.html", ".html"} THEN p1 ELSE p1 \o <<".html">>
        front == SubSeq(checkPath, 1, Len(checkPath) - 1)
        altPath == IF checkPath[Len(checkPath)] = ".html" THEN front \o <<"/", "index.html">>
                   ELSE front \o <<"index", "/", "index.html">>
        cleanPath == IF slash THEN h \o <<"index.html">> ELSE h \o <<"/", "index.html">>
    IN  {checkPath, altPath, cleanPath} \cap distPaths = {}

MaxBrokenShown == 10

\* checkInternalLinks: the number of warnings it gives.
checkInternalLinks ==
    LET links == perFile(LAMBDA loc, page :
                     IF ~Exists(loc, page) THEN <<>>
                     ELSE SelectSeq(linksIn(dist[<<loc, page.pageKey>>][1]), linkChecked))
        broken == Len(SelectSeq(links, linkBroken))
    IN  IF broken = 0 THEN 0
        ELSE (IF broken <= MaxBrokenShown THEN broken ELSE MaxBrokenShown) + 1

\* html.includes('noindex')
includesNoindex(html) ==
    \E n \in 1..Len(pageTexts(html)) :
        \E k \in 1..Len(pageTexts(html)[n]) : pageTexts(html)[n][k] = Ch("noindex")

\* checkNoindex: the locales it warns about.
checkNoindex ==
    SelectSeq(LOCALES, LAMBDA loc :
        /\ dist[<<loc, "disclosure">>] # NoFile
        /\ ~includesNoindex(dist[<<loc, "disclosure">>][1]))


\* error(msg) for each line of `errs`, warn(msg) `warns` times.
Report(errs, warns, next) ==
    /\ errors' = errors + Len(errs)
    /\ errlog' = errlog \o errs
    /\ warnings' = warnings + warns
    /\ vpc' = next
    /\ UNCHANGED <<LOCALES, exitCode, xvars, bvars, tvars>>

VCheckFileCount ==
    /\ bpc \in {"done", "not run"} /\ vpc = "checkFileCount"
    /\ Report(checkFileCount, 0, "checkPlaceholders")

VCheckPlaceholders ==
    /\ vpc = "checkPlaceholders"
    /\ Report(checkPlaceholders, 0, "checkUndefined")

VCheckUndefined ==
    /\ vpc = "checkUndefined"
    /\ Report(checkUndefined, 0, "checkHtmlLang")

VCheckHtmlLang ==
    /\ vpc = "checkHtmlLang"
    /\ Report(checkHtmlLang, 0, "checkHreflang")

VCheckHreflang ==
    /\ vpc = "checkHreflang"
    /\ Report(checkHreflang, 0, "checkSitemap")

VCheckSitemap ==
    /\ vpc = "checkSitemap"
    /\ Report(checkSitemap.errs, checkSitemap.warns, "checkInternalLinks")

VCheckInternalLinks ==
    /\ vpc = "checkInternalLinks"
    /\ Report(<<>>, checkInternalLinks, "checkNoindex")

VCheckNoindex ==
    /\ vpc = "checkNoindex"
    /\ Report(<<>>, Len(checkNoindex), "results")

\* The script giving up with status 1 as soon as a check has raised an error.
VExitOnFirstError ==
    /\ vpc = "results" \/ (errors > 0 /\ vpc \notin {"idle", "checkFileCount", "exit"})
    /\ exitCode' = IF errors > 0 THEN 1 ELSE 0
    /\ vpc' = "exit"
    /\ UNCHANGED <<LOCALES, errors, warnings, errlog, xvars, bvars, tvars>>

\* if (errors > 0) process.exit(1), else the script ends with status 0.
VExit ==
    /\ vpc = "results"
    /\ exitCode' = IF errors > 0 THEN 1 ELSE 0
    /\ vpc' = "exit"
    /\ UNCHANGED <<LOCALES, errors, warnings, errlog, xvars, bvars, tvars>>


-----------------------------------------------------------------------------
(* The sites the build and verification runs start from *)

\* The run loop of extract.js over raw pages s: the templates and the dictionary.
extractRun(s) ==
    Loop([templates |-> [pk \in PageKeys |-> NoFile], locale |-> InitLocale], 1, Len(PAGES),
         LAMBDA st, n :
            Then(processPage(PAGES[n], s[PAGES[n].pageKey], st.locale), LAMBDA r :
                 [templates |-> IF r.tpl = NoFile THEN st.templates
                                ELSE [st.templates EXCEPT ![PAGES[n].pageKey] = r.tpl],
                  locale |-> r.loc]))

LineHeadGB == <<Elem("html", "", <<Ch("en-GB")>>, <<>>), Elem("title", "", <<>>, tPr),
                Elem("link", "canonical", tUrl, <<>>)>>

HomeFull == <<LineHead, LineSocial, LineNav, LineHeadings, LineParagraph, LineFooter>>

\* A head that comes with an alternate link of its own.
LineHeadAlt == <<Elem("html", "", <<Ch("en")>>, <<>>), Elem("title", "", <<>>, tPr),
                 Elem("link", "canonical", tUrl, <<>>),
                 Elem("link", "alternate:x-default", tUrl, <<>>)>>

\* Structured data whose strings hold an escaped double quote, an escaped
\* backslash and an escaped line break: "A car bed \"up\"", "A car bed\\up" and
\* "A car bed\nup"; the name of the brand, which is not extracted, holds an
\* escaped quote too.
LineJsonLdEscapes ==
    <<JsonLd(<<JObj("Product", FALSE,
                    ("description" :> <<Ch("A car bed "), JsonBackslash, JsonQuote, Ch("up"),
                                        JsonBackslash, JsonQuote>>)
                    @@ ("name" :> <<Ch("A car bed"), JsonBackslash, JsonBackslash, Ch("up")>>)
                    @@ ("url" :> tUrl)),
               JObj("Review", FALSE,
                    ("reviewBody" :> <<Ch("A car bed"), JsonBackslash, Ch("n"), Ch("up")>>)
                    @@ ("headline" :> tLong)),
               JObj("Brand", FALSE, ("name" :> <<Ch("A car bed"), JsonBackslash, JsonQuote>>))>>)>>

HomePages == {HomeFull, <<LineHeadings>>, <<LineHeadGB, LineHeadings>>,
              <<LineHeadAlt, LineHeadings>>, <<LineHeadings, LineJsonLd>>,
              <<LineHeadings, LineJsonLdEscapes>>}

DisclosureFull == <<
    <<Elem("html", "", <<Ch("en")>>, <<>>), Elem("title", "", <<>>, tPR),
      Elem("meta", "robots", <<Ch("noindex")>>, <<>>),
      Elem("link", "canonical", tUrl, <<>>)>>,
    <<Elem("p", "", <<>>, tPr)>> >>

DisclosureIndexed == <<
    <<Elem("html", "", <<Ch("en")>>, <<>>), Elem("title", "", <<>>, tPR),
      Elem("link", "canonical", tUrl, <<>>)>>,
    <<Elem("p", "", <<>>, tPr)>> >>

\* A translation of text v into locale loc.
inLocale(loc, v) == <<Ch(loc \o ":")>> \o v

\* A complete <loc>.json for the English dictionary en.
Translated(loc, en) ==
    [s \in DOMAIN en |->
        IF s = "_meta"
        THEN ("locale" :> <<Ch(loc)>>) @@ ("locale_path" :> Str(LOCALE_CONFIG[loc].locale_path))
             @@ ("og_locale" :> <<Ch(LOCALE_CONFIG[loc].og_locale)>>)
             @@ ("html_lang" :> <<Ch(LOCALE_CONFIG[loc].html_lang)>>)
        ELSE [k \in DOMAIN en[s] |-> inLocale(loc, en[s][k])]]

Without(f, x) == [y \in DOMAIN f \ {x} |-> f[y]]

LocaleVariants == {"complete", "absent", "no home", "no key", "undefined"}

\* The <loc>.json of a variant.
LocaleFileOf(loc, en, variant) ==
    LET full == Translated(loc, en)
        home == IF "home" \in DOMAIN en THEN DOMAIN en["home"] ELSE {}
    IN  CASE variant = "absent" -> NoFile
          [] variant = "no home" -> File(Without(full, "home"))
          [] variant = "no key" /\ home # {} ->
                File([full EXCEPT !["home"] = Without(@, CHOOSE k \in home : TRUE)])
          [] variant = "undefined" /\ home # {} ->
                File([full EXCEPT !["home"] =
                        [@ EXCEPT ![CHOOSE k \in home : TRUE] = <<Ch("undefined")>>]])
          [] OTHER -> File(full)

\* The build is started on the files of an extraction run; or it is not run
\* at all and verify.js finds the tree an earlier build left, without a sitemap.
BInit ==
    /\ \E h \in {NoFile} \cup {File(x) : x \in HomePages} :
       \E d \in {NoFile, File(DisclosureFull), File(DisclosureIndexed)} :
          /\ src = [pk \in PageKeys |->
                       CASE pk = "home" -> h
                         [] pk = "disclosure" -> d
                         [] OTHER -> File(RedirectRaw)]
          /\ \E r \in {extractRun(src)} : templates = r.templates /\ locale = r.locale
    /\ enJson = File(enJsonOf(locale))
    /\ xpc = "done" /\ xi = Len(PAGES) + 1 /\ xrun = 1
    /\ prevTemplates = [pk \in PageKeys |-> NoFile]
    /\ prevEnJson = NoFile
    /\ \E de \in LocaleVariants : \E fr \in {"complete", "absent"} :
          localeFiles = [loc \in LocaleCodes \ {"en"} |->
                            LocaleFileOf(loc, enJson[1],
                                CASE loc = "de" -> de [] loc = "fr" -> fr [] OTHER -> "complete")]
    /\ selectedLocales \in {<<>>, <<"en", "de">>}
    /\ locales = <<>>
    /\ dist = [p \in LocaleCodes \X PageKeys |-> IF p = <<"de", "home">> THEN File(<<>>) ELSE NoFile]
    /\ sitemap = NoFile
    /\ bwarn = <<>>
    /\ bpc \in {"start"} \cup (IF src["home"] = File(HomeFull) /\ src["disclosure"] = NoFile
                                   /\ selectedLocales = <<>>
                                   /\ localeFiles["de"] # NoFile /\ localeFiles["fr"] # NoFile
                                THEN {"not run"} ELSE {})
    /\ bi = 1 /\ bj = 1
    /\ LOCALES \in {ALL_LOCALES, <<"en", "de">>}
    /\ errors = 0 /\ warnings = 0 /\ errlog = <<>>
    /\ vpc = "checkFileCount" /\ exitCode = -1
    /\ TIdle

BNext ==
    \/ BLoadLocales \/ BBuildPage \/ BGenerateSitemap
    \/ VCheckFileCount \/ VCheckPlaceholders \/ VCheckUndefined \/ VCheckHtmlLang
    \/ VCheckHreflang \/ VCheckSitemap \/ VCheckInternalLinks \/ VCheckNoindex \/ VExit

SpecBuild == BInit /\ [][BNext]_vars


-----------------------------------------------------------------------------
(* Properties of rendering and verification *)

\* The translation placeholders of template pk the dictionary of lc has no value for.
missingOf(lc, pk) ==
    SelectSeq(unresolvedIn(templates[pk][1]), LAMBDA tok : ~HasKey(locales[lc], tok.a, tok.b))

\* The `Missing:` lines written while page pk was built for lc, as placeholders.
diagnosticsOf(lc, pk) ==
    LET ws == SelectSeq(bwarn, LAMBDA w : w.w = "Missing" /\ w.loc = lc /\ w.page = pk)
    IN  [n \in 1..Len(ws) |-> T(ws[n].section, ws[n].key)]

\* buildPage(PAGES[j], localeKeys[i], ...) has returned.
Built(i, j) == bpc = "done" \/ (bpc = "build" /\ (i < bi \/ (i = bi /\ j < bj)))

\* C5: missing-entry policy of rendering: every page built from a template is
\* written (nothing throws); the placeholders left in it are exactly, in
\* document order, those whose scope or key the locale's dictionary lacks
\* (left verbatim, never emptied, every other one resolved); and one
\* diagnostic was written for each of them.
C5_MissingEntryPolicy ==
    \A i \in 1..Len(localeKeys) : \A j \in 1..Len(PAGES) :
        (Built(i, j) /\ templates[PAGES[j].pageKey] # NoFile) =>
            LET lc == localeKeys[i]
                pk == PAGES[j].pageKey
            IN  /\ dist[<<lc, pk>>] # NoFile
                /\ unresolvedIn(dist[<<lc, pk>>][1]) = missingOf(lc, pk)
                /\ diagnosticsOf(lc, pk) = missingOf(lc, pk)

\* A finished build in which the home page of `de` keeps placeholders of a
\* scope its dictionary lacks while other placeholders of the page got values.
C5_Witness ==
    /\ bpc = "done" /\ "de" \in DOMAIN locales /\ dist[<<"de", "home">>] # NoFile
    /\ \E n \in 1..Len(missingOf("de", "home")) :
          missingOf("de", "home")[n].a \notin DOMAIN locales["de"]
    /\ Len(missingOf("de", "home")) < Len(unresolvedIn(templates["home"][1]))

\* The placeholder check has run.
PlaceholdersChecked ==
    vpc \in {"checkUndefined", "checkHtmlLang", "checkHreflang", "checkSitemap",
             "checkInternalLinks", "checkNoindex", "results", "exit"}

\* The error lines of the placeholder check for one file.
unresolvedErrors(loc, pk) ==
    SelectSeq(errlog, LAMBDA e : e.check = "unresolved" /\ e.loc = loc /\ e.page = pk)

LocalesChecked == {LOCALES[n] : n \in 1..Len(LOCALES)}

\* C6 as stated: for a rendered file with n > 0 placeholders left, the
\* placeholder check raises the error count by n for that file.
C6_ErrorPerPlaceholder ==
    PlaceholdersChecked =>
        /\ errors = Len(errlog)
        /\ \A loc \in LocalesChecked : \A pk \in PageKeys :
              dist[<<loc, pk>>] # NoFile =>
                  Len(unresolvedErrors(loc, pk)) = Len(unresolvedIn(dist[<<loc, pk>>][1]))

\* C6 amended: for a rendered file with n > 0 placeholders left, the
\* placeholder check raises the error count by one for that file, with a
\* message that states n; a file without placeholders adds no error.
C6_ErrorPerFile ==
    PlaceholdersChecked =>
        /\ errors = Len(errlog)
        /\ \A loc \in LocalesChecked : \A pk \in PageKeys :
              dist[<<loc, pk>>] # NoFile =>
                  LET n == Len(unresolvedIn(dist[<<loc, pk>>][1]))
                  IN  IF n = 0 THEN unresolvedErrors(loc, pk) = <<>>
                      ELSE /\ Len(unresolvedErrors(loc, pk)) = 1
                           /\ unresolvedErrors(loc, pk)[1].n = n

\* The placeholder check has run over a `de` home page with two or more
\* placeholders left, `de` lacking scope home.
C6_Witness ==
    /\ PlaceholdersChecked /\ "de" \in LocalesChecked /\ "de" \in DOMAIN locales
    /\ "home" \notin DOMAIN locales["de"]
    /\ dist[<<"de", "home">>] # NoFile
    /\ Len(unresolvedIn(dist[<<"de", "home">>][1])) >= 2
    /\ Len(unresolvedErrors("de", "home")) = 1

\* C10: exit contract of verification: the exit status is non-zero exactly
\* when a check other than link integrity and the sitemap URL count has
\* failed: a missing file, an unresolved placeholder, an "undefined" marker,
\* a wrong language attribute, an hreflang defect, a sitemap without
\* alternates, or a disclosure page without noindex.
C10_ExitContract ==
    vpc = "exit" =>
        (exitCode # 0 <=>
            \/ checkFileCount # <<>>
            \/ checkPlaceholders # <<>>
            \/ checkUndefined # <<>>
            \/ checkHtmlLang # <<>>
            \/ checkHreflang # <<>>
            \/ checkSitemap.errs # <<>>
            \/ checkNoindex # <<>>)


-----------------------------------------------------------------------------
(* translate.js *)

\* Object.keys(TARGET_LOCALES)
TARGET_LOCALES == <<"de", "fr", "no", "da", "sv">>

TargetCodes == {TARGET_LOCALES[n] : n \in 1..Len(TARGET_LOCALES)}

LOCALE_META ==
    [loc \in TargetCodes |->
        ("locale" :> <<Ch(loc)>>) @@ ("locale_path" :> Str(LOCALE_CONFIG[loc].locale_path))
        @@ ("og_locale" :> <<Ch(LOCALE_CONFIG[loc].og_locale)>>)
        @@ ("html_lang" :> <<Ch(LOCALE_CONFIG[loc].html_lang)>>)]

\* JSON.parse of en.json
en == enJson[1]

\* Object.keys(en).filter(k => k !== '_meta'), in the order extract.js wrote them.
allSections ==
    SelectSeq(<<"shared">> \o [n \in 1..Len(PAGES) |-> PAGES[n].pageKey],
              LAMBDA k : k \in DOMAIN en)

\* selectedSections || allSections
sections == IF selectedSections = <<>> THEN allSections ELSE selectedSections

\* selectedLocales || Object.keys(TARGET_LOCALES)
targetLocales == IF selectedLocales = <<>> THEN TARGET_LOCALES ELSE selectedLocales

Put(f, k, v) == (k :> v) @@ [x \in DOMAIN f \ {k} |-> f[x]]

\* Object.keys(o).length
KeyCount(o) == Cardinality(DOMAIN o)

\* A check that finds no scope translated.
alreadyTranslatedNever(data, section) == FALSE

\* localeData[section] && Object.keys(localeData[section]).length ===
\* Object.keys(en[section]).length
alreadyTranslated(data, section) ==
    section \in DOMAIN data /\ KeyCount(data[section]) = KeyCount(en[section])

\* What translateSection can return once the API has answered: the object
\* JSON.parse gives (all keys, or one key short), or null for a response that
\* does not parse.
Outcomes(loc, sectionData) ==
    LET full == [k \in DOMAIN sectionData |-> inLocale(loc, sectionData[k])]
    IN  {[parses |-> TRUE, value |-> full], [parses |-> FALSE, value |-> <<>>]}
        \cup (IF DOMAIN sectionData = {} THEN {}
              ELSE {[parses |-> TRUE,
                     value |-> Without(full, CHOOSE k \in DOMAIN sectionData : TRUE)]})

\* localeData[section] = result, keeping the keys the old content had besides.
storeResultMerged(data, section, result) ==
    Put(data, section,
        IF section \in DOMAIN data THEN result @@ data[section] ELSE result)

\* localeData[section] = result
storeResult(data, section, result) == Put(data, section, result)

\* The save after a section left out.
saveLocaleSkipped(files, loc, data) == files

\* fs.writeFileSync(localePath, JSON.stringify(localeData, null, 2), 'utf8')
saveLocale(files, loc, data) == [files EXCEPT ![loc] = File(data)]

MaxTRuns == 2

\* main up to the locale loop: en.json is read.
TStart ==
    /\ tpc = "start"
    /\ tpc' = "locale"
    /\ ti' = 1
    /\ UNCHANGED <<selectedSections, tLocaleData, tj, trun, calls, tlog, filesAtStart, tends,
                   localeFiles, selectedLocales, locales, dist, sitemap, bwarn, bpc, bi, bj,
                   xvars, vvars>>

TUnknownLocale ==
    /\ tpc = "locale"
    /\ ti <= Len(targetLocales)
    /\ targetLocales[ti] \notin TargetCodes
    /\ ti' = ti + 1
    /\ UNCHANGED <<selectedSections, tLocaleData, tpc, tj, trun, calls, tlog, filesAtStart,
                   tends, bvars, xvars, vvars>>

\* The head of the locale loop starting from an empty object whatever the
\* file holds.
TLoadLocaleEmpty ==
    /\ tpc = "locale"
    /\ ti <= Len(targetLocales)
    /\ targetLocales[ti] \in TargetCodes
    /\ tLocaleData' = Put(EmptyObj, "_meta", LOCALE_META[targetLocales[ti]])
    /\ tj' = 1
    /\ tpc' = "section"
    /\ UNCHANGED <<selectedSections, ti, trun, calls, tlog, filesAtStart, tends,
                   bvars, xvars, vvars>>

\* The head of the locale loop: the locale file is loaded, _meta is set.
TLoadLocale ==
    /\ tpc = "locale"
    /\ ti <= Len(targetLocales)
    /\ targetLocales[ti] \in TargetCodes
    /\ LET loc == targetLocales[ti]
       IN  tLocaleData' = Put(IF localeFiles[loc] # NoFile THEN localeFiles[loc][1] ELSE EmptyObj,
                              "_meta", LOCALE_META[loc])
    /\ tj' = 1
    /\ tpc' = "section"
    /\ UNCHANGED <<selectedSections, ti, trun, calls, tlog, filesAtStart, tends,
                   bvars, xvars, vvars>>

TSectionNotFound ==
    /\ tpc = "section"
    /\ tj <= Len(sections)
    /\ sections[tj] \notin DOMAIN en
    /\ tj' = tj + 1
    /\ UNCHANGED <<selectedSections, tLocaleData, tpc, ti, trun, calls, tlog, filesAtStart,
                   tends, bvars, xvars, vvars>>

TAlreadyTranslated ==
    /\ tpc = "section"
    /\ tj <= Len(sections)
    /\ sections[tj] \in DOMAIN en
    /\ alreadyTranslated(tLocaleData, sections[tj])
    /\ tlog' = tlog \cup {[run |-> trun, loc |-> targetLocales[ti], section |-> sections[tj],
                           outcome |-> "already translated", result |-> <<>>]}
    /\ tj' = tj + 1
    /\ UNCHANGED <<selectedSections, tLocaleData, tpc, ti, trun, calls, filesAtStart, tends,
                   bvars, xvars, vvars>>

\* translateSection up to its await: the request is sent.
TCall ==
    /\ tpc = "section"
    /\ tj <= Len(sections)
    /\ sections[tj] \in DOMAIN en
    /\ ~alreadyTranslated(tLocaleData, sections[tj])
    /\ calls' = calls \cup {[run |-> trun, loc |-> targetLocales[ti], section |-> sections[tj],
                             data |-> en[sections[tj]]]}
    /\ tpc' = "await"
    /\ UNCHANGED <<selectedSections, tLocaleData, ti, tj, trun, tlog, filesAtStart, tends,
                   bvars, xvars, vvars>>

\* The API answers: translateSection returns, the result is stored when there
\* is one, the locale file is saved.
TResponse ==
    /\ tpc = "await"
    /\ LET loc == targetLocales[ti]
           section == sections[tj]
       IN  \E o \in Outcomes(loc, en[section]) :
              LET data == IF o.parses THEN storeResult(tLocaleData, section, o.value)
                          ELSE tLocaleData
              IN  /\ tLocaleData' = data
                  /\ localeFiles' = saveLocale(localeFiles, loc, data)
                  /\ tlog' = tlog \cup
                        {[run |-> trun, loc |-> loc, section |-> section,
                          outcome |-> IF o.parses THEN "done" ELSE "FAILED",
                          result |-> o.value]}
    /\ tj' = tj + 1
    /\ tpc' = "section"
    /\ UNCHANGED <<selectedSections, ti, trun, calls, filesAtStart, tends,
                   selectedLocales, locales, dist, sitemap, bwarn, bpc, bi, bj, xvars, vvars>>

\* client.messages.create rejects: the exception leaves translateSection and
\* main, and main().catch ends the process with status 1.
TApiError ==
    /\ tpc = "await"
    /\ tpc' = "exit1"
    /\ UNCHANGED <<selectedSections, tLocaleData, ti, tj, trun, calls, tlog, filesAtStart,
                   tends, bvars, xvars, vvars>>

TLocaleDone ==
    /\ tpc = "section"
    /\ tj > Len(sections)
    /\ ti' = ti + 1
    /\ tpc' = "locale"
    /\ UNCHANGED <<selectedSections, tLocaleData, tj, trun, calls, tlog, filesAtStart, tends,
                   bvars, xvars, vvars>>

TDone ==
    /\ tpc = "locale"
    /\ ti > Len(targetLocales)
    /\ tpc' = "done"
    /\ UNCHANGED <<selectedSections, tLocaleData, ti, tj, trun, calls, tlog, filesAtStart,
                   tends, bvars, xvars, vvars>>

\* The process is terminated from outside.
TCrash ==
    /\ tpc \in {"start", "locale", "section", "await"}
    /\ tpc' = "crashed"
    /\ UNCHANGED <<selectedSections, tLocaleData, ti, tj, trun, calls, tlog, filesAtStart,
                   tends, bvars, xvars, vvars>>

\* The script is started again on the files the run before it left.
TRerun ==
    /\ tpc \in {"done", "exit1", "crashed"}
    /\ trun < MaxTRuns
    /\ trun' = trun + 1
    /\ tends' = Append(tends, tpc)
    /\ filesAtStart' = localeFiles
    /\ tLocaleData' = <<>>
    /\ tpc' = "start"
    /\ ti' = 1
    /\ tj' = 1
    /\ UNCHANGED <<selectedSections, calls, tlog, bvars, xvars, vvars>>


-----------------------------------------------------------------------------
(* The locale files the translation runs start from *)

TranslateHome == <<LineHeadings, LineTable>>

TLocaleVariants == {"absent", "complete", "fewer", "obsolete", "renamed"}

\* de.json as an earlier translation left it: complete, or with a home scope
\* that lacks a key, has a key the source no longer has, or both.
TLocaleFileOf(loc, source, variant) ==
    LET full == Translated(loc, source)
        k == CHOOSE key \in DOMAIN source["home"] : TRUE
        old == inLocale(loc, <<Ch("old")>>)
    IN  CASE variant = "absent" -> NoFile
          [] variant = "fewer" -> File([full EXCEPT !["home"] = Without(@, k)])
          [] variant = "obsolete" -> File([full EXCEPT !["home"] = Put(@, "old_key", old)])
          [] variant = "renamed" ->
                File([full EXCEPT !["home"] = Put(Without(@, k), "old_key", old)])
          [] OTHER -> File(full)

\* The command lines of the runs: --locales xx,de with every section, or
\* --locales de,fr --sections home,nope.
TranslateArgs == {[locales |-> <<"xx", "de">>, sections |-> <<>>],
                  [locales |-> <<"de", "fr">>, sections |-> <<"home", "nope">>]}

TInit ==
    /\ src = [pk \in PageKeys |->
                 CASE pk = "home" -> File(TranslateHome)
                   [] pk = "disclosure" -> NoFile
                   [] OTHER -> File(RedirectRaw)]
    /\ \E r \in {extractRun(src)} : templates = r.templates /\ locale = r.locale
    /\ enJson = File(enJsonOf(locale))
    /\ xpc = "done" /\ xi = Len(PAGES) + 1 /\ xrun = 1
    /\ prevTemplates = [pk \in PageKeys |-> NoFile]
    /\ prevEnJson = NoFile
    /\ \E de \in TLocaleVariants :
          localeFiles = [loc \in TargetCodes |->
                            IF loc = "de" THEN TLocaleFileOf(loc, enJson[1], de) ELSE NoFile]
    /\ \E args \in TranslateArgs :
          selectedLocales = args.locales /\ selectedSections = args.sections
    /\ locales = <<>> /\ dist = <<>> /\ sitemap = NoFile /\ bwarn = <<>>
    /\ bpc = "idle" /\ bi = 1 /\ bj = 1
    /\ VIdle
    /\ tLocaleData = <<>>
    /\ tpc = "start" /\ ti = 1 /\ tj = 1 /\ trun = 1
    /\ calls = {} /\ tlog = {}
    /\ filesAtStart = localeFiles
    /\ tends = <<>>

TNext ==
    \/ TStart \/ TUnknownLocale \/ TLoadLocale \/ TSectionNotFound \/ TAlreadyTranslated
    \/ TCall \/ TResponse \/ TApiError \/ TLocaleDone \/ TDone \/ TCrash \/ TRerun

SpecTranslate == TInit /\ [][TNext]_vars


-----------------------------------------------------------------------------
(* Properties of translation *)

\* The content of scope s in the persisted file of loc, NoFile when the file
\* or the scope is not there.
scopeOf(files, loc, s) ==
    IF files[loc] = NoFile THEN NoFile
    ELSE IF s \notin DOMAIN files[loc][1] THEN NoFile
    ELSE File(files[loc][1][s])

\* Scope s of the file of loc is there with as many keys as the source scope.
Fresh(files, loc, s) ==
    /\ scopeOf(files, loc, s) # NoFile
    /\ Cardinality(DOMAIN scopeOf(files, loc, s)[1]) = Cardinality(DOMAIN en[s])

\* C7: a failed translator call is isolated per scope: when the call in
\* flight ends without a translation (the API call fails or the response does
\* not parse), FAILED is recorded for the scope, the scope's persisted content
\* stays as it was, and the run goes on with the next section.
C7_FailureIsolated ==
    [][(/\ tpc = "await"
        /\ tpc' # "crashed"
        /\ \A r \in tlog' \ tlog : r.outcome # "done")
       => /\ \E r \in tlog' \ tlog :
                /\ r.outcome = "FAILED"
                /\ r.loc = targetLocales[ti] /\ r.section = sections[tj]
          /\ scopeOf(localeFiles', targetLocales[ti], sections[tj])
                = scopeOf(localeFiles, targetLocales[ti], sections[tj])
          /\ tpc' = "section" /\ tj' = tj + 1 /\ ti' = ti]_vars

\* C8: staleness check: a source scope is skipped, without a call and with the
\* file and the dictionary unchanged, exactly when the locale file holds it
\* with the source's key count; otherwise the whole source object is sent to
\* the translator, and a result that comes back replaces the stored scope as
\* it is, keeping no key of the old content.
C8_Staleness ==
    [][/\ (/\ tpc = "section" /\ tj <= Len(sections) /\ sections[tj] \in DOMAIN en
           /\ tpc' # "crashed")
          => IF Fresh(localeFiles, targetLocales[ti], sections[tj])
             THEN /\ calls' = calls /\ localeFiles' = localeFiles
                  /\ tLocaleData' = tLocaleData
                  /\ tpc' = "section" /\ tj' = tj + 1
             ELSE /\ calls' = calls \cup {[run |-> trun, loc |-> targetLocales[ti],
                                           section |-> sections[tj],
                                           data |-> en[sections[tj]]]}
                  /\ localeFiles' = localeFiles
                  /\ tpc' = "await"
       /\ tpc = "await"
          => \A r \in tlog' \ tlog :
                r.outcome = "done" =>
                    scopeOf(localeFiles', targetLocales[ti], sections[tj]) = File(r.result)]_vars

\* In the first run over a de.json whose home scope had another key count
\* than the source, shared was skipped and home was translated anew: the file
\* now holds exactly the keys of the result.
C8_Witness ==
    /\ trun = 1
    /\ filesAtStart["de"] # NoFile
    /\ "home" \in DOMAIN filesAtStart["de"][1]
    /\ ~Fresh(filesAtStart, "de", "home")
    /\ \E r \in tlog : /\ r.run = 1 /\ r.loc = "de" /\ r.section = "shared"
                       /\ r.outcome = "already translated"
    /\ \E r \in tlog : /\ r.run = 1 /\ r.loc = "de" /\ r.section = "home"
                       /\ r.outcome = "done"
                       /\ scopeOf(localeFiles, "de", "home") = File(r.result)
                       /\ "old_key" \in DOMAIN filesAtStart["de"][1]["home"]
                       /\ "old_key" \notin DOMAIN localeFiles["de"][1]["home"]

-----------------------------------------------------------------------------
(* Properties of the rendered alternate links and of the sitemap *)

\* The alternate links of a rendered page in document order: the hreflang
\* value and the href of each.
alternatesIn(html) ==
    FlatMap(elementsOf(html), LAMBDA e :
        IF e.tag = "link" /\ \E h \in HreflangValues : e.cls = "alternate:" \o h
        THEN <<[hreflang |-> CHOOSE h \in HreflangValues : e.cls = "alternate:" \o h,
                href |-> e.attr]>>
        ELSE <<>>)

\* The positions of the alternate links with hreflang value h.
alternatesFor(alts, h) == {n \in 1..Len(alts) : alts[n].hreflang = h}

\* C11: hreflang cardinality end to end: every page other than the redirect
\* page that was extracted and rendered for a locale holds 7 alternate links:
\* exactly one for each of the six configured locales and exactly one
\* x-default, which points at the unprefixed path.
C11_HreflangCardinality ==
    \A i \in 1..Len(localeKeys) : \A j \in 1..Len(PAGES) :
        (/\ Built(i, j) /\ PAGES[j].pageKey # RedirectKey
         /\ dist[<<localeKeys[i], PAGES[j].pageKey>>] # NoFile) =>
            LET alts == alternatesIn(dist[<<localeKeys[i], PAGES[j].pageKey>>][1])
            IN  /\ Len(alts) = Len(ALL_LOCALES) + 1
                /\ \A loc \in LocaleCodes :
                      Cardinality(alternatesFor(alts, LOCALE_CONFIG[loc].hreflang)) = 1
                /\ Cardinality(alternatesFor(alts, "x-default")) = 1
                /\ \A n \in alternatesFor(alts, "x-default") :
                      alts[n].href = urlOf("", pagePathOf(PAGES[j]))


\* The locales whose rendered index file is in the output tree.
localesWithIndex == {l \in LocaleCodes : dist[<<l, "home">>] # NoFile}

\* C12: sitemap cardinality: after a build the sitemap holds P x L <url>
\* entries, P the number of pages of the registry and L the number of locales
\* whose rendered index file exists in the output tree.
C12_SitemapCardinality ==
    bpc = "done" => Len(sitemap[1]) = Len(PAGES) * Cardinality(localesWithIndex)


-----------------------------------------------------------------------------
(* Properties of a build with complete dictionaries *)

\* The dictionary of lc holds every (scope, key) pair of the English dictionary.
CompleteFor(lc) ==
    \A s \in DOMAIN enJson[1] :
        /\ s \in DOMAIN locales[lc]
        /\ DOMAIN enJson[1][s] \subseteq DOMAIN locales[lc][s]

\* The undefined check has run.
UndefinedChecked ==
    vpc \in {"checkHtmlLang", "checkHreflang", "checkSitemap", "checkInternalLinks",
             "checkNoindex", "results", "exit"}

\* No rendered file holds a translation placeholder or an "undefined" marker,
\* and the two checks of verify.js have reported nothing.
NoLeak ==
    /\ \A p \in DOMAIN dist :
          dist[p] # NoFile =>
              /\ unresolvedIn(dist[p][1]) = <<>>
              /\ undefinedIn(dist[p][1]) = <<>>
    /\ PlaceholdersChecked => \A n \in 1..Len(errlog) : errlog[n].check # "unresolved"
    /\ UndefinedChecked => \A n \in 1..Len(errlog) : errlog[n].check # "undefined"

CleanText(t) == \A n \in 1..Len(t) : t[n].k # "t" /\ t[n] # Ch("undefined")

\* Neither a raw page nor a value of a loaded dictionary holds placeholder
\* syntax or the word undefined.
CleanContent ==
    /\ \A pk \in PageKeys :
          src[pk] # NoFile =>
              \A n \in 1..Len(pageTexts(src[pk][1])) : CleanText(pageTexts(src[pk][1])[n])
    /\ \A lc \in DOMAIN locales : \A s \in DOMAIN locales[lc] : \A k \in DOMAIN locales[lc][s] :
          CleanText(locales[lc][s][k])

-----------------------------------------------------------------------------
(* Extraction and the order of the pages *)

\* The run loop of extract.js over raw pages s with the registry in the
\* order `order`, a sequence of indices into PAGES.
extractRunIn(s, order) ==
    Loop([templates |-> [pk \in PageKeys |-> NoFile], locale |-> InitLocale], 1, Len(order),
         LAMBDA st, n :
            Then(processPage(PAGES[order[n]], s[PAGES[order[n]].pageKey], st.locale), LAMBDA r :
                 [templates |-> IF r.tpl = NoFile THEN st.templates
                                ELSE [st.templates EXCEPT ![PAGES[order[n]].pageKey] = r.tpl],
                  locale |-> r.loc]))

\* The orders the pages of the registry can be put in.
PageOrders ==
    {o \in [1..Len(PAGES) -> 1..Len(PAGES)] : \A a, b \in 1..Len(PAGES) : o[a] = o[b] => a = b}

\* C14: extraction is independent of page order: a run over the raw pages in
\* any order of the registry writes the English dictionary and the templates
\* that the run in registry order has written.
C14_OrderIndependent ==
    RunDone(1) =>
        \A o \in PageOrders :
            /\ enJsonOf(extractRunIn(src, o).locale) = enJson[1]
            /\ extractRunIn(src, o).templates = templates


-----------------------------------------------------------------------------
(* Internal links of the rendered pages *)

\* The root-relative link targets of a raw page that point neither at a
\* static asset nor into a reserved directory, in document order, each as the
\* atoms after its leading slash: the hrefs of elements and of inline links.
pageLinksOf(html) ==
    FlatMap(elementsOf(html), LAMBDA e :
        (IF e.tag \in {"a", "link"} /\ IsRootRelative(e.attr) /\ ~linkKept(e.attr)
         THEN <<Chars(Tail(e.attr))>> ELSE <<>>)
        \o FlatMap(e.body, LAMBDA tok :
               IF tok.k = "tag" /\ tok.a = "a" /\ tok.b \in InlinePageHrefs
               THEN << <<InlineTargets[tok.b]>> >> ELSE <<>>))

\* How often target h occurs in a sequence of links.
timesIn(links, h) == Cardinality({n \in 1..Len(links) : links[n] = h})

\* Target h with the path prefix of locale lc after the leading slash.
prefixed(lc, h) == (IF LOCALE_PATHS[lc] = "" THEN <<>> ELSE <<LOCALE_PATHS[lc]>>) \o h

\* The dictionary of lc is the English one (for en) or its translation with
\* the markup of the values kept.
FaithfulFor(lc) ==
    locales[lc] = IF lc = "en" THEN enJson[1] ELSE Translated(lc, enJson[1])

\* C15: locale-prefixed internal links: every internal page link of a raw
\* page, wherever it stands in the page, is in the page rendered for locale L
\* with L's path prefix after the leading slash: the rendered page holds the
\* prefixed target as often as the raw page holds the target.
C15_LinksPrefixed ==
    \A i \in 1..Len(localeKeys) : \A j \in 1..Len(PAGES) :
        (/\ Built(i, j) /\ PAGES[j].pageKey # RedirectKey
         /\ dist[<<localeKeys[i], PAGES[j].pageKey>>] # NoFile
         /\ FaithfulFor(localeKeys[i])) =>
            LET raw == pageLinksOf(src[PAGES[j].pageKey][1])
                out == linksIn(dist[<<localeKeys[i], PAGES[j].pageKey>>][1])
            IN  \A n \in 1..Len(raw) :
                    timesIn(out, prefixed(localeKeys[i], raw[n])) >= timesIn(raw, raw[n])


-----------------------------------------------------------------------------
(* The values of the dictionary *)

\* The classes of the meta elements extractMeta looks at.
metaClasses == {metaTags[n].cls : n \in 1..Len(metaTags)}

\* The key extractMeta uses for a metadata element.
metaKeyOf(e) ==
    IF e.tag = "title" THEN "meta_title"
    ELSE metaTags[CHOOSE n \in 1..Len(metaTags) : metaTags[n].cls = e.cls].key

\* The value of a metadata element: the body of a title, the content of a meta.
metaValueOf(e) == IF e.tag = "title" THEN e.body ELSE e.attr

\* The first metadata elements of their kind in a raw page, as positions in
\* the sequence of its elements.
firstMetaOf(raw) ==
    {n \in 1..Len(raw) :
        /\ raw[n].tag = "title" \/ (raw[n].tag = "meta" /\ raw[n].cls \in metaClasses)
        /\ \A q \in 1..(n - 1) : ~(raw[q].tag = raw[n].tag /\ raw[q].cls = raw[n].cls)}

\* C16: no empty dictionary entries: while raw pages are extracted, no value
\* of the dictionary is empty or white space only, nor is one of en.json; and
\* a metadata element whose value is empty or white space only is in the
\* template as it was in the raw page and has no key.
C16_NoEmptyEntries ==
    RawInput =>
        /\ \A s \in DOMAIN locale : \A k \in DOMAIN locale[s] : Trim(locale[s][k]) # <<>>
        /\ enJson # NoFile =>
              \A s \in DOMAIN enJson[1] \ {"_meta"} : \A k \in DOMAIN enJson[1][s] :
                  Trim(enJson[1][s][k]) # <<>>
        /\ xpc = "done" =>
              \A pk \in PageKeys \ {RedirectKey} :
                  templates[pk] # NoFile =>
                      LET raw == elementsOf(src[pk][1])
                          tpl == ownElements(templates[pk][1])
                      IN  \A n \in firstMetaOf(raw) :
                              Trim(metaValueOf(raw[n])) = <<>> =>
                                  /\ tpl[n] = raw[n]
                                  /\ ~HasKey(locale, pk, metaKeyOf(raw[n]))


-----------------------------------------------------------------------------
(* The course of a verification run *)

\* The positions of verify.js in the order of the script: the eight checks,
\* the report of the results, the end.
CheckOrder ==
    <<"checkFileCount", "checkPlaceholders", "checkUndefined", "checkHtmlLang",
      "checkHreflang", "checkSitemap", "checkInternalLinks", "checkNoindex", "results", "exit">>

\* C17: all verification checks always run: a verification run goes through
\* the eight checks one after the other in the order of the script, each check
\* once, whatever the checks before it have raised; the exit status is set only
\* after the last check; and at the end the error lines are those of all the
\* checks in that order and the warnings those of the three checks that warn.
C17_AllChecksRun ==
    /\ [][/\ vpc' # vpc =>
                \E n \in 1..(Len(CheckOrder) - 1) :
                    vpc = CheckOrder[n] /\ vpc' = CheckOrder[n + 1]
          /\ exitCode' # exitCode => (vpc = "results" /\ vpc' = "exit")]_vars
    /\ [](vpc = "exit" =>
            /\ errlog = checkFileCount \o checkPlaceholders \o checkUndefined \o checkHtmlLang
                        \o checkHreflang \o checkSitemap.errs
            /\ errors = Len(errlog)
            /\ warnings = checkSitemap.warns + checkInternalLinks + Len(checkNoindex))

\* A run has ended that found rendered files missing and no sitemap, and
\* still reported on the checks after them: the home page of `de` without a
\* language attribute and with too few alternate links.
C17_Witness ==
    /\ vpc = "exit" /\ exitCode = 1
    /\ checkFileCount # <<>> /\ sitemap = NoFile
    /\ \E n \in 1..Len(errlog) : errlog[n].check = "sitemap.xml not found"
    /\ \E n \in 1..Len(errlog) : errlog[n].check = "missing <html lang>"
    /\ \E n \in 1..Len(errlog) : errlog[n].check = "hreflang tags"


-----------------------------------------------------------------------------
(* The fields of the structured data *)

\* The fields of the well-formed structured-data blocks of a page: element n
\* of the page, object m of the block in the order of the traversal (every
\* nesting depth), field f.
jsonSitesOf(raw) ==
    {s \in (1..Len(raw)) \X (1..Len(translatableFields))
              \X {translatableFields[n] : n \in 1..Len(translatableFields)} :
        /\ raw[s[1]].tag = "jsonld" /\ raw[s[1]].cls # "malformed"
        /\ s[2] <= Len(raw[s[1]].json)
        /\ s[3] \in DOMAIN raw[s[1]].json[s[2]].f}

\* The `name` of an object whose @type is in the exempt list.
IsExemptName(raw, s) == s[3] = "name" /\ raw[s[1]].json[s[2]].otype \in ExemptNameTypes

\* A `description` that is no URL, no ISO date and no schema.org identifier,
\* of any length or longer than the minimum.
IsDescription(raw, s, anyLength) ==
    LET v == raw[s[1]].json[s[2]].f[s[3]] IN
    /\ s[3] = "description"
    /\ ~StartsWithHttp(v) /\ ~IsIsoDate(v) /\ ~HasSchemaOrg(v)
    /\ anyLength \/ CharLen(v) > JsonMinLen

\* The keys of the page scope that come from a field of the structured data.
jsonKeysOf(loc, pk, field) ==
    IF pk \notin DOMAIN loc THEN {}
    ELSE {k \in DOMAIN loc[pk] :
            \E b \in 1..(MaxLines + MaxLines + MaxLines) :
            \E i \in 1..(MaxLines * Len(translatableFields) * Len(translatableFields)) :
                k = "jsonld_" \o ToString(b) \o "_" \o field \o "_" \o ToString(i)}

\* The selection of the fields, for descriptions of any length or for the
\* long ones only.
FieldSelection(anyLength) ==
    xpc = "done" =>
        \A pk \in PageKeys \ {RedirectKey} :
            templates[pk] # NoFile =>
                LET raw == ownElements(src[pk][1])
                    tpl == ownElements(templates[pk][1])
                    val(s) == raw[s[1]].json[s[2]].f[s[3]]
                    out(s) == tpl[s[1]].json[s[2]].f[s[3]]
                    sites == jsonSitesOf(raw)
                    descs == {s \in sites : IsDescription(raw, s, anyLength)}
                IN  /\ \A s \in sites : IsExemptName(raw, s) => out(s) = val(s)
                    /\ Cardinality(jsonKeysOf(locale, pk, "name"))
                          <= Cardinality({s \in sites : s[3] = "name" /\ ~IsExemptName(raw, s)})
                    /\ \A s \in descs :
                          \E k \in jsonKeysOf(locale, pk, "description") :
                              out(s) = <<T(pk, k)>> /\ locale[pk][k] = val(s)
                    /\ \A s1 \in descs : \A s2 \in descs : out(s1) = out(s2) => s1 = s2
                    /\ Cardinality(jsonKeysOf(locale, pk, "description")) = Cardinality(descs)

-----------------------------------------------------------------------------
(* What the hreflang check of the verification reports *)

\* The error lines of the hreflang check for one rendered file.
hreflangErrorsFor(loc, pk) ==
    {n \in 1..Len(errlog) :
        /\ errlog[n].check \in {"hreflang tags", "missing x-default"}
        /\ errlog[n].loc = loc /\ errlog[n].page = pk}

\* A rendered file is complete: an alternate link for every configured locale
\* and exactly one x-default alternate link.
HreflangComplete(html) ==
    LET alts == alternatesIn(html)
    IN  /\ \A l \in LocaleCodes : alternatesFor(alts, LOCALE_CONFIG[l].hreflang) # {}
        /\ Cardinality(alternatesFor(alts, "x-default")) = 1

\* C19: hreflang completeness check: once the verification has ended, for
\* every rendered file of a page other than the redirect page in every checked
\* locale there is an hreflang error exactly when the file lacks the alternate
\* link of a configured locale or does not hold exactly one x-default link.
C19_HreflangChecked ==
    vpc = "exit" =>
        \A n \in 1..Len(LOCALES) : \A j \in 1..Len(PAGES) :
            (PAGES[j].pageKey # RedirectKey /\ Exists(LOCALES[n], PAGES[j])) =>
                (hreflangErrorsFor(LOCALES[n], PAGES[j].pageKey) # {}
                    <=> ~HreflangComplete(dist[<<LOCALES[n], PAGES[j].pageKey>>][1]))


-----------------------------------------------------------------------------
(* The page-scoped keys of the body text *)

\* The categories of the body-text pass.
BodyCategories ==
    {"h1", "h2", "h3", "h4", "p", "btn"}
    \cup {"span_" \o spanClasses[n].u : n \in 1..Len(spanClasses)}
    \cup {"div_" \o divClasses[n].u : n \in 1..Len(divClasses)}
    \cup {"link_" \o linkClasses[n].u : n \in 1..Len(linkClasses)}

\* The key of the n-th string of a category.
bodyKey(c, n) == IF n = 1 THEN c ELSE c \o "_" \o ToString(n)

\* The numbers a key of a category can have in a page of the model: every
\* matcher takes at most one string of a line.
KeyNumbers == 1..(MaxLines + MaxLines + 1)

\* The numbers of the keys of category c in the scope of page pk.
keyNumbersOf(loc, pk, c) == {n \in KeyNumbers : HasKey(loc, pk, bodyKey(c, n))}

\* The number of the key of category c that element e holds as its body, or 0.
keyNumberAt(e, pk, c) ==
    LET ns == {n \in KeyNumbers : e.body = <<T(pk, bodyKey(c, n))>>}
    IN  IF ns = {} THEN 0 ELSE CHOOSE n \in ns : TRUE

\* The extraction sites of category c that the template shows: the elements, in
\* document order, whose body the run has replaced by a key of the category.
sitesOf(raw, tpl, pk, c) ==
    {p \in 1..Len(tpl) : keyNumberAt(tpl[p], pk, c) # 0 /\ raw[p].body # tpl[p].body}

\* C20: deterministic page-scoped keys: after a run over raw pages, in every
\* page and every category of the body-text pass, the keys of the page scope
\* are `<category>`, `<category>_2`, ... without a gap, whatever the other
\* pages hold; the strings that were replaced hold these keys in increasing
\* order through the document, each key at one site only, and the dictionary
\* has the trimmed text of the site under its key.
C20_SequentialKeys ==
    (RunDone(1) /\ RawInput) =>
        \A pk \in PageKeys : templates[pk] # NoFile =>
            LET raw == elementsOf(src[pk][1])
                tpl == ownElements(templates[pk][1])
            IN  \A c \in BodyCategories :
                    LET ns == keyNumbersOf(locale, pk, c)
                        sites == sitesOf(raw, tpl, pk, c)
                    IN  /\ ns = 1..Cardinality(ns)
                        /\ \A p \in sites :
                              /\ keyNumberAt(tpl[p], pk, c) \in ns
                              /\ locale[pk][bodyKey(c, keyNumberAt(tpl[p], pk, c))]
                                    = Trim(raw[p].body)
                        /\ \A p \in sites : \A q \in sites :
                              p < q => keyNumberAt(tpl[p], pk, c) < keyNumberAt(tpl[q], pk, c)
                        /\ \A p \in sites :
                              keyNumberAt(tpl[p], pk, c) >= Cardinality({q \in sites : q <= p})

\* A run over raw pages has given the home page a second key in a category
\* whose template shows both sites, and the home page and the disclosure page
\* each have the key `h1`.
C20_Witness ==
    /\ RunDone(1) /\ RawInput
    /\ src["disclosure"] # NoFile
    /\ HasKey(locale, "home", "h1") /\ HasKey(locale, "disclosure", "h1")
    /\ \E c \in BodyCategories :
          /\ HasKey(locale, "home", bodyKey(c, 2))
          /\ Cardinality(sitesOf(elementsOf(src["home"][1]),
                                 ownElements(templates["home"][1]), "home", c)) = 2


-----------------------------------------------------------------------------
(* The skip rules of the body-text pass *)

\* The page and the dictionary as extractBodyText gets them: the passes of
\* processPage before it, on a raw page and an empty dictionary.
beforeBodyText(raw, pk) ==
    Then(extractMeta([html |-> raw, loc |-> (pk :> EmptyObj) @@ InitLocale], pk), LAMBDA a :
    Then([html |-> templateStructural(a.html), loc |-> a.loc], LAMBDA b :
    Then(extractJsonLd(b, pk), LAMBDA c :
    templateNav(c))))

\* The values of the entries a pass adds to the dictionary.
valuesAdded(before, after) ==
    UNION {{after[s][k] : k \in DOMAIN after[s] \ (IF s \in DOMAIN before THEN DOMAIN before[s]
                                                    ELSE {})} : s \in DOMAIN after}

\* The elements whose body a matcher of the body-text pass takes as its
\* candidate: headings, paragraphs, table headers, class-marked spans and
\* divs, buttons and links.
IsBodyCandidate(e) ==
    \/ e.tag \in {"h1", "h2", "h3", "h4", "p", "th"}
    \/ e.tag = "span" /\ \E n \in 1..Len(spanClasses) : ClsStartsWith(e.cls, spanClasses[n].cls)
    \/ e.tag = "div" /\ \E n \in 1..Len(divClasses) : e.cls = divClasses[n].cls
    \/ e.tag \in {"a", "button"} /\ ClsHasBtn(e.cls)
    \/ e.tag = "a" /\ \E n \in 1..Len(linkClasses) : e.cls = linkClasses[n].cls

\* The element whose data-label attribute is the candidate.
IsLabelCandidate(e) == e.tag = "td"

\* The skip rules on the lines of a page, for the bodies and for the labels:
\* a candidate string that has to be skipped is in the page after the pass as
\* it was before it, and no entry the pass adds holds it.
SkipRulesFor(raw, pk, bodies, labels) ==
    LET b == beforeBodyText(raw, pk)
        a == extractBodyText(b, pk)
        added == valuesAdded(b.loc, a.loc)
    IN  \A i \in 1..Len(b.html) : \A j \in 1..Len(b.html[i]) :
            LET e == b.html[i][j] IN
            /\ (bodies /\ IsBodyCandidate(e) /\ shouldSkip(e.body)) =>
                  a.html[i][j].body = e.body /\ Trim(e.body) \notin added
            /\ (labels /\ IsLabelCandidate(e) /\ shouldSkip(e.attr)) =>
                  a.html[i][j].attr = e.attr /\ e.attr \notin added

\* C21: skip rules of the body-text pass: for every raw page that a run has
\* processed, no matcher of the body-text pass (headings, paragraphs, table
\* headers, class-marked spans and divs, buttons and links, data-label
\* attributes) rewrites or stores a candidate string that is empty, shorter
\* than 2 characters without its markup, only digits and symbols, a bare
\* numeric id, or begins with the placeholder delimiter.
C21_SkipRules ==
    (xpc = "done" /\ RawInput) =>
        \A pk \in PageKeys \ {RedirectKey} :
            templates[pk] # NoFile => SkipRulesFor(src[pk][1], pk, TRUE, TRUE)


-----------------------------------------------------------------------------
(* The lines the body-text pass leaves alone *)

\* Line i of a page lies inside a block that the tags `open` begin and the tags
\* `close` end: the block began on a line up to i and did not end before i,
\* or line i holds its end.
InsideBlock(html, i, open, close) ==
    \/ \E o \in 1..i : /\ LineHas(html[o], open)
                       /\ \A c \in o..(i - 1) : ~LineHas(html[c], close)
    \/ LineHas(html[i], close)

\* Line i lies inside the footer sub-tree.
InsideFooter(html, i) ==
    \E o \in 1..i : /\ \E j \in 1..Len(html[o]) : html[o][j].cls = "footer"
                    /\ \A c \in o..(i - 1) : ~LineHas(html[c], {"/footer"})

\* The lines the claim excludes from the body-text pass.
Opaque(html, i) ==
    \/ InsideBlock(html, i, {"script", "jsonld"}, {"/script", "jsonld"})
    \/ InsideBlock(html, i, {"style"}, {"/style"})
    \/ InsideFooter(html, i)
    \/ LineHasT(html[i])

\* The matchers find something to extract on a line.
HasWork(line, loc, pk) ==
    scanLine([line |-> line, loc |-> loc, cnt |-> [x \in {} |-> 0]], pk).line # line

\* The masking on the lines of a page among `lines`: an opaque line is
\* after the pass as it was before it, and a line that is not opaque and
\* holds something to extract has been rewritten.
MaskingFor(raw, pk, lines) ==
    LET b == beforeBodyText(raw, pk)
        a == extractBodyText(b, pk)
    IN  \A i \in lines \cap (1..Len(b.html)) :
            /\ Opaque(b.html, i) => a.html[i] = b.html[i]
            /\ (~Opaque(b.html, i) /\ HasWork(b.html[i], b.loc, pk)) => a.html[i] # b.html[i]

\* C22: opaque-region masking: for every raw page that a run has processed, a
\* line is left out of the body-text pass if and only if it lies inside a
\* script block, a style block or the footer sub-tree, or holds a translation
\* placeholder already; every other line, also one after the footer's closing
\* tag or after a closed script or style block, is scanned by the matchers.
C22_OpaqueRegions ==
    (xpc = "done" /\ RawInput) =>
        \A pk \in PageKeys \ {RedirectKey} :
            templates[pk] # NoFile => MaskingFor(src[pk][1], pk, 1..(MaxLines + MaxLines + 1))


-----------------------------------------------------------------------------
(* The language switcher *)

\* The navigation link lists of a page: the positions of their opening tags
\* in the sequence of its elements.
navListsOf(elems) ==
    {p \in 1..Len(elems) :
        IsNavOpen(elems[p]) /\ \E q \in (p + 1)..Len(elems) : IsUlClose(elems[q])}

\* The positions of the language-switcher placeholders of a template.
switchersOf(elems) == {p \in 1..Len(elems) : elems[p] = Ph("langSwitcher")}

\* A language-switcher placeholder stands directly after the closing tag of a
\* navigation link list.
AfterNavList(elems, p) ==
    /\ p > 1 /\ IsUlClose(elems[p - 1])
    /\ \E o \in 1..(p - 2) :
          IsNavOpen(elems[o]) /\ \A q \in (o + 1)..(p - 2) : ~IsUlClose(elems[q])

\* C23 as stated: the template of a raw page with a navigation link list holds
\* exactly one language-switcher placeholder, after the list, however many
\* lists the page has; a page without such a list gets none.
C23_SwitcherOnce ==
    (xpc = "done" /\ RawInput) =>
        \A pk \in PageKeys \ {RedirectKey} :
            templates[pk] # NoFile =>
                LET lists == navListsOf(elementsOf(src[pk][1]))
                    tpl == elementsOf(templates[pk][1])
                IN  /\ Cardinality(switchersOf(tpl)) = IF lists = {} THEN 0 ELSE 1
                    /\ \A p \in switchersOf(tpl) : AfterNavList(tpl, p)

\* C23, amended: the template holds exactly one language-switcher placeholder
\* for each navigation link list of the raw page, each directly after the
\* closing tag of a list; a page without such a list gets none.
C23_SwitcherPerList ==
    (xpc = "done" /\ RawInput) =>
        \A pk \in PageKeys \ {RedirectKey} :
            templates[pk] # NoFile =>
                LET lists == navListsOf(elementsOf(src[pk][1]))
                    tpl == elementsOf(templates[pk][1])
                IN  /\ Cardinality(switchersOf(tpl)) = Cardinality(lists)
                    /\ \A p \in switchersOf(tpl) : AfterNavList(tpl, p)
                    /\ \A p \in switchersOf(tpl) : \A q \in switchersOf(tpl) :
                          p < q => \E o \in (p + 1)..(q - 1) : IsNavOpen(tpl[o])

\* A run over raw pages has processed a home page with two navigation link
\* lists, and a disclosure page without one.
C23_Witness ==
    /\ xpc = "done" /\ RawInput
    /\ templates["home"] # NoFile /\ templates["disclosure"] # NoFile
    /\ Cardinality(navListsOf(elementsOf(src["home"][1]))) = 2
    /\ navListsOf(elementsOf(src["disclosure"][1])) = {}


-----------------------------------------------------------------------------
(* Structured data that is no valid JSON *)

IsMalformed(e) == e.tag = "jsonld" /\ e.cls = "malformed"

\* The page with an empty well-formed block in the place of every block that
\* is no valid JSON.
withoutMalformed(html) ==
    [i \in 1..Len(html) |-> [j \in 1..Len(html[i]) |->
        IF IsMalformed(html[i][j]) THEN JsonLd(<<>>) ELSE html[i][j]]]

\* The keys of the page scope that come from block number b of the page.
blockKeysOf(loc, pk, b) ==
    IF pk \notin DOMAIN loc THEN {}
    ELSE {k \in DOMAIN loc[pk] :
            \E f \in 1..Len(translatableFields) :
            \E i \in 1..(MaxLines * Len(translatableFields) * Len(translatableFields)) :
                k = "jsonld_" \o ToString(b) \o "_" \o translatableFields[f]
                      \o "_" \o ToString(i)}

\* The number of the structured-data block at position n of the elements.
blockNumber(elems, n) == Cardinality({q \in 1..n : elems[q].tag = "jsonld"})

\* What is said of the malformed blocks of a page: of all of them, or of those
\* that hold no link.
MalformedSkipped(pk, linked) ==
    LET raw == elementsOf(src[pk][1])
        tpl == ownElements(templates[pk][1])
        ref == extractPasses([html |-> withoutMalformed(src[pk][1]),
                              loc |-> (pk :> EmptyObj) @@ InitLocale], pk)
        other == ownElements(ref.html)
    IN  /\ \A n \in 1..Len(raw) :
              (IsMalformed(raw[n]) /\ (linked \/ ~HasTag(raw[n].body))) =>
                  /\ tpl[n] = raw[n]
                  /\ blockKeysOf(locale, pk, blockNumber(raw, n)) = {}
        /\ Len(tpl) = Len(other)
        /\ \A n \in 1..Len(raw) : ~IsMalformed(raw[n]) => tpl[n] = other[n]
        /\ locale[pk] = ref.loc[pk]

\* C24: malformed structured data is skipped without damage: in the template
\* of a processed raw page every JSON-LD block that is no valid JSON is as it
\* was in the raw page and no key of the dictionary comes from it, and all
\* the rest of the template and the page's scope of the dictionary are what
\* they are for the page with an empty block in its place.
C24_MalformedSkipped ==
    (RunDone(1) /\ RawInput) =>
        \A pk \in PageKeys \ {RedirectKey} :
            templates[pk] # NoFile => MalformedSkipped(pk, TRUE)


-----------------------------------------------------------------------------
(* The writes of the locale files *)

\* The scopes of the persisted file of loc.
scopesOf(files, loc) == IF files[loc] = NoFile THEN {} ELSE DOMAIN files[loc][1]

-----------------------------------------------------------------------------
(* Keys without a placeholder *)

\* The keys of the scope of page pk that no placeholder of the page's template
\* names.
orphansOf(loc, tpl, pk) ==
    IF pk \notin DOMAIN loc THEN {}
    ELSE {k \in DOMAIN loc[pk] : T(pk, k) \notin placeholdersOf(tpl)}

\* C26: no orphan keys: after a run over raw pages every key of a page's
\* scope of the dictionary, and of the English dictionary written from it, is
\* named by a translation placeholder of the page's template, also when a
\* line holds several matches.
C26_NoOrphanKeys ==
    (RunDone(1) /\ RawInput) =>
        \A pk \in PageKeys :
            templates[pk] # NoFile =>
                /\ orphansOf(locale, templates[pk][1], pk) = {}
                /\ orphansOf(enJson[1], templates[pk][1], pk) = {}


-----------------------------------------------------------------------------
(* Targets of the alternate links *)

\* Page pk was rendered for locale l by the build that has finished.
RenderedNow(l, pk) ==
    /\ bpc = "done"
    /\ l \in {localeKeys[n] : n \in 1..Len(localeKeys)}
    /\ templates[pk] # NoFile

\* The locale an hreflang value names; x-default names the unprefixed pages,
\* which are the English ones.
localeOfHreflang(h) ==
    IF h = "x-default" THEN "en" ELSE CHOOSE l \in LocaleCodes : LOCALE_CONFIG[l].hreflang = h

\* The hrefs of the links of the language dropdowns of a rendered page.
switcherLinksIn(html) ==
    LET es == elementsOf(html)
        inDropdown(n) ==
            \E o \in 1..(n - 1) :
                /\ es[o].tag = "ul" /\ es[o].cls = "lang-dropdown"
                /\ \A c \in (o + 1)..(n - 1) : es[c].tag # "/ul"
    IN  [k \in 1..Len(SelectSeq([n \in 1..Len(es) |-> n],
                                LAMBDA n : es[n].tag = "a" /\ inDropdown(n))) |->
            es[SelectSeq([n \in 1..Len(es) |-> n],
                         LAMBDA n : es[n].tag = "a" /\ inDropdown(n))[k]].attr]

\* The href of the language-switcher link of locale l on the page at pagePath.
switcherHref(l, pagePath) ==
    <<Ch("/")>> \o Str(LOCALE_CONFIG[l].locale_path)
        \o [k \in 1..Len(pagePath) |-> Ch(pagePath[k])]

\* The page a sitemap entry is about, by its <loc>.
pagesOfEntry(e) ==
    {j \in 1..Len(PAGES) :
        \E l \in LocaleCodes : e.loc = urlOf(LOCALE_CONFIG[l].locale_path, pagePathOf(PAGES[j]))}

\* Every alternate link, language-switcher link and sitemap alternate link
\* of the finished build points to a locale of `targets(pk)`, at the address
\* of page pk for that locale.
LinksPointInto(targets(_)) ==
    /\ \A i \in 1..Len(localeKeys) : \A j \in 1..Len(PAGES) :
          LET pk == PAGES[j].pageKey
              path == pagePathOf(PAGES[j])
          IN  RenderedNow(localeKeys[i], pk) =>
                LET html == dist[<<localeKeys[i], pk>>][1]
                    alts == alternatesIn(html)
                    sw == switcherLinksIn(html)
                IN  /\ \A n \in 1..Len(alts) :
                          localeOfHreflang(alts[n].hreflang) \in targets(pk)
                    /\ \A n \in 1..Len(sw) :
                          \E l \in targets(pk) : sw[n] = switcherHref(l, path)
    /\ sitemap # NoFile =>
          \A n \in 1..Len(sitemap[1]) : \A j \in pagesOfEntry(sitemap[1][n]) :
              \A m \in 1..Len(sitemap[1][n].links) :
                  LET x == sitemap[1][n].links[m]
                  IN  \E l \in targets(PAGES[j].pageKey) :
                          /\ l = localeOfHreflang(x.hreflang)
                          /\ x.href = urlOf(LOCALE_CONFIG[l].locale_path, pagePathOf(PAGES[j]))

\* C27 as stated: alternate links only target built pages: in every build,
\* also one restricted to a subset of the locales or one in which the
\* dictionary file of a locale is missing, every hreflang alternate link,
\* every language-switcher link and every sitemap alternate link emitted for a
\* page points to a locale for which that page was rendered in the same build.
C27_AlternatesTargetBuiltPages ==
    bpc = "done" => LinksPointInto(LAMBDA pk : {l \in LocaleCodes : RenderedNow(l, pk)})

\* C27 amended: alternate links target the configured locales: in every
\* build, also one restricted to a subset of the locales or one in which the
\* dictionary file of a locale is missing, every hreflang alternate link,
\* every language-switcher link and every sitemap alternate link emitted for a
\* page points to a configured locale, whether or not that page was rendered
\* for it in the same build; in a build that loaded the dictionary of every
\* configured locale, the hreflang alternate links and the language-switcher
\* links of a rendered page point to locales for which that page was rendered
\* in the same build.
C27_AlternatesTargetConfiguredLocales ==
    bpc = "done" =>
        /\ LinksPointInto(LAMBDA pk : LocaleCodes)
        /\ LocaleCodes \subseteq DOMAIN locales =>
              \A i \in 1..Len(localeKeys) : \A j \in 1..Len(PAGES) :
                  LET pk == PAGES[j].pageKey
                  IN  RenderedNow(localeKeys[i], pk) =>
                        LET html == dist[<<localeKeys[i], pk>>][1]
                            alts == alternatesIn(html)
                            sw == switcherLinksIn(html)
                        IN  /\ \A n \in 1..Len(alts) :
                                  RenderedNow(localeOfHreflang(alts[n].hreflang), pk)
                            /\ \A n \in 1..Len(sw) :
                                  \E l \in LocaleCodes :
                                      /\ sw[n] = switcherHref(l, pagePathOf(PAGES[j]))
                                      /\ RenderedNow(l, pk)

\* A finished build restricted to `en` and `de` whose home page holds the
\* alternate links and the language-switcher links of all six locales.
C27_Witness ==
    /\ bpc = "done" /\ templates["home"] # NoFile
    /\ Len(alternatesIn(dist[<<"en", "home">>][1])) > Len(ALL_LOCALES)
    /\ Len(switcherLinksIn(dist[<<"en", "home">>][1])) = Len(ALL_LOCALES)
    /\ sitemap # NoFile /\ Len(sitemap[1]) > 0
    /\ selectedLocales = <<"en", "de">>


-----------------------------------------------------------------------------
(* Sitemap entries and rendered files *)

\* The (locale, page key) pairs whose address is the <loc> of entry e.
pairsOfEntry(e) ==
    {p \in LocaleCodes \X PageKeys :
        \E j \in 1..Len(PAGES) :
            /\ PAGES[j].pageKey = p[2]
            /\ e.loc = urlOf(LOCALE_CONFIG[p[1]].locale_path, pagePathOf(PAGES[j]))}

\* Every <url> entry of the sitemap names a pair for which the finished build
\* wrote a rendered file.
EntriesRendered ==
    \A n \in 1..Len(sitemap[1]) :
        \E p \in pairsOfEntry(sitemap[1][n]) :
            RenderedNow(p[1], p[2]) /\ dist[p] # NoFile

\* C28: sitemap entries correspond to rendered files: after any build every
\* <url> entry of the sitemap names a (page, locale) pair for which a rendered
\* file was written in that build, also when the template of a page is
\* missing and rendering skips that page.
C28_EntriesRendered ==
    (bpc = "done" /\ sitemap # NoFile) => EntriesRendered


-----------------------------------------------------------------------------
(* Structured data from the raw page to the rendered page *)

\* The JSON-LD blocks of a page in document order.
jsonBlocksOf(html) == SelectSeq(elementsOf(html), LAMBDA e : e.tag = "jsonld")

\* The fields of object m of a template block that hold a placeholder.
extractedFields(block, m) ==
    {fld \in DOMAIN block.json[m].f :
        Len(block.json[m].f[fld]) = 1 /\ block.json[m].f[fld][1].k = "t"}

\* Extraction rewrote the block: it put a placeholder into one of its fields.
Rewritten(block) == \E m \in 1..Len(block.json) : extractedFields(block, m) # {}

\* The blocks of page pk that extraction rewrote are valid JSON in the page
\* rendered for lc, and each extracted field whose raw value satisfies
\* Covered parses to the value it had in the raw page.
JsonRoundTrip(pk, lc, Covered(_)) ==
    LET raw == jsonBlocksOf(src[pk][1])
        tpl == jsonBlocksOf(templates[pk][1])
        out == jsonBlocksOf(dist[<<lc, pk>>][1])
    IN  \A n \in 1..Len(tpl) :
            (Rewritten(tpl[n]) /\ \A m \in 1..Len(tpl[n].json) :
                                     \A fld \in extractedFields(tpl[n], m) :
                                         Covered(jsonParseString(raw[n].json[m].f[fld]).v)) =>
                /\ jsonParses(out[n])
                /\ \A m \in 1..Len(tpl[n].json) : \A fld \in extractedFields(tpl[n], m) :
                      jsonParseString(out[n].json[m].f[fld]).v
                          = jsonParseString(raw[n].json[m].f[fld]).v

\* C29: structured data survives the round trip: for the source locale every
\* JSON-LD block that extraction rewrote is, after rendering with the English
\* dictionary, still valid JSON whose extracted string fields have their
\* original values, also when an original value holds a double quote, a
\* backslash or a line break.
C29_StructuredDataRoundTrip ==
    \A pk \in PageKeys \ {RedirectKey} :
        (RenderedNow("en", pk) /\ src[pk] # NoFile) => JsonRoundTrip(pk, "en", LAMBDA v : TRUE)


-----------------------------------------------------------------------------
(* Repeated translation runs *)

\* The script is started again after the runs the model counts: the run
\* number stays at its bound, the ends of the counted runs are kept, and the
\* records of calls and of log lines begin anew with the run.
TRerunAgain ==
    /\ tpc \in {"done", "exit1", "crashed"}
    /\ trun = MaxTRuns
    /\ filesAtStart' = localeFiles
    /\ tLocaleData' = <<>>
    /\ calls' = {}
    /\ tlog' = {}
    /\ tpc' = "start"
    /\ ti' = 1
    /\ tj' = 1
    /\ UNCHANGED <<selectedSections, trun, tends, bvars, xvars, vvars>>

\* The process is terminated from outside in a run before the last one the
\* model counts: the terminations are finitely many.
TCrashCounted == TCrash /\ trun < MaxTRuns

TNextLive ==
    \/ TStart \/ TUnknownLocale \/ TLoadLocale \/ TSectionNotFound \/ TAlreadyTranslated
    \/ TCall \/ TResponse \/ TApiError \/ TLocaleDone \/ TDone \/ TCrashCounted \/ TRerun
    \/ TRerunAgain

\* The translator returns an object with the key set of the source scope.
TResponseFull ==
    /\ TResponse
    /\ sections[tj] \in DOMAIN tLocaleData'
    /\ DOMAIN tLocaleData'[sections[tj]] = DOMAIN en[sections[tj]]

\* The statements of main between two awaits.
TStep ==
    \/ TStart \/ TUnknownLocale \/ TLoadLocale \/ TSectionNotFound \/ TAlreadyTranslated
    \/ TCall \/ TLocaleDone \/ TDone

\* A run that is not terminated goes on with its next statement, a request
\* is answered or fails, the script is started again whenever a run has
\* ended, and the translator, asked again and again, at some time returns an
\* object with the key set of the source scope it was asked for.
TFairness ==
    /\ WF_vars(TStep)
    /\ WF_vars(TResponse \/ TApiError)
    /\ WF_vars(TRerun \/ TRerunAgain)
    /\ SF_vars(TResponseFull)

SpecTranslateLive == TInit /\ [][TNextLive]_vars /\ TFairness

\* The target locales and the source scopes the runs are about.
TargetsOfRun == {targetLocales[n] : n \in 1..Len(targetLocales)} \cap TargetCodes
ScopesOfRun == {sections[n] : n \in 1..Len(sections)} \cap DOMAIN en

\* Every scope of every target locale counts as already translated: the
\* locale file holds it with as many keys as the source scope has.
Converged ==
    \A loc \in TargetsOfRun :
        /\ localeFiles[loc] # NoFile
        /\ \A s \in ScopesOfRun :
              /\ s \in DOMAIN localeFiles[loc][1]
              /\ KeyCount(localeFiles[loc][1][s]) = KeyCount(en[s])

=============================================================================
